---- MODULE Spec2Model ----
(***************************************************************************)
(* QueryJDM: the query evaluator (src/utils/evaluateQuery.ts), its graph   *)
(* client with the process-wide response cache, and the HTTP route that    *)
(* runs a parsed query (src/app/api/process-query/route.ts).               *)
(*                                                                         *)
(* Strings.  A JavaScript string that the code splits on "_" (a variable   *)
(* or binding name) is modelled as the sequence of its "_"-separated       *)
(* segments, and a string that the code splits on "," (a value) as the     *)
(* sequence of its ","-separated parts.  Template strings `${a}_${b}` and  *)
(* `${a},${b}` are then concatenations, and split() is the sequence        *)
(* itself: joining loses the boundary exactly as it does in the code.      *)
(***************************************************************************)
EXTENDS Integers, Sequences, FiniteSets, TLC

VARIABLES
    apiCache,   \* Map key -> [result, timestamp]            (evaluateQuery.ts:5)
    now,        \* Date.now()
    world,      \* the upstream dataset answering outbound requests
    query,      \* the parsed query being run by GET: a left-leaning clause chain
    pc,         \* position of the GET handler / evaluateQuery recursion
    idx,        \* index of the clause being evaluated
    acc,        \* leftResult of the compound node under construction
    tasks,      \* the lookups of the clause under evaluation (Promise.all group)
    relMap,     \* relatedEntitiesMap of the clause under evaluation
    scan,       \* the nodes list of a full scan, once fetched
    combined,   \* the last compound node combined: its operands, combinedVariables, tuples
    resp,       \* the JSON response of GET
    log,        \* outbound requests issued so far for the running query
    failed,     \* number of lookups of the running query that threw (fetch or json)
    runs,       \* number of queries started (of client calls, for the client alone)
    ticks,      \* number of clock advances
    wtoken,     \* weight-band check: the WEIGHT_PARAM token text
    wband,      \* weight-band check: the band computed from it
    callers,    \* graph-client check: independent callers of handleAPICall
    input,      \* parser check: the query string of the request
    parsed,     \* parser check: what parseQuery returned or threw
    lexer,      \* lexer check: the lexer's position and the tokens it returned
    codec       \* pair-name check: a pair binding and what is decoded from it

vars == <<apiCache, now, world, query, pc, idx, acc, tasks, relMap, scan,
          combined,
          resp, log, failed, runs, ticks, wtoken, wband, callers, input, parsed,
          lexer, codec>>

----------------------------------------------------------------------------
(* Generic helpers for JavaScript arrays, Sets and Maps (insertion order). *)

Range(s) == {s[i] : i \in 1..Len(s)}

Includes(s, x) == \E i \in 1..Len(s) : s[i] = x

\* [...new Set(s)] / repeated Set.add: first occurrences, in order
RECURSIVE Dedup(_)
Dedup(s) ==
    IF s = <<>> THEN <<>>
    ELSE LET r == Dedup(SubSeq(s, 1, Len(s) - 1))
         IN  IF Includes(r, s[Len(s)]) THEN r ELSE Append(r, s[Len(s)])

\* array.flatMap over a sequence of sequences
RECURSIVE Flatten(_)
Flatten(ss) == IF ss = <<>> THEN <<>> ELSE Head(ss) \o Flatten(Tail(ss))

\* array.findIndex: 0 when absent (JavaScript: -1)
FindIndex(vs, n) ==
    IF \E i \in 1..Len(vs) : vs[i].name = n
    THEN CHOOSE i \in 1..Len(vs) :
            vs[i].name = n /\ \A j \in 1..(i - 1) : vs[j].name # n
    ELSE 0

\* JavaScript `undefined` where a string was expected; no string is <<>>
Undef == <<>>

\* destructuring [a, b] = parts: a missing element is undefined, which a
\* template string prints as the text "undefined"
SegAt(s, i) == IF i <= Len(s) THEN s[i] ELSE "undefined"

\* the i-th comma part of a value as a value of its own, or undefined
PartAt(v, i) == IF i <= Len(v) THEN <<v[i]>> ELSE Undef

----------------------------------------------------------------------------
(* Pair-relation names: `${left}_${right}_pairs`.                          *)

\* a variant that names the binding with the right variable first
PairNameRightFirst(l, r) == r \o l \o <<"pairs">>

PairName(l, r) == l \o r \o <<"pairs">>

\* v.name.includes("_pairs")
IsPairs(name) == \E i \in 2..Len(name) : name[i] = "pairs"

\* v.name.split("_pairs")[0].split("_")
BeforePairs(name) ==
    LET i == CHOOSE k \in 2..Len(name) :
                name[k] = "pairs" /\ \A j \in 2..(k - 1) : name[j] # "pairs"
    IN  SubSeq(name, 1, i - 1)

\* const [var1, var2] = ...; the key `${var1}_${var2}` is kept as the pair
PairKey(name) == <<SegAt(BeforePairs(name), 1), SegAt(BeforePairs(name), 2)>>

----------------------------------------------------------------------------
(* generateTuples (evaluateQuery.ts:414-557).  JavaScript Maps and Sets    *)
(* are sequences without duplicates, in insertion order.                   *)

PlainOnly(variables) == SelectSeq(variables, LAMBDA v : ~IsPairs(v.name))

PairsOnly(variables) == SelectSeq(variables, LAMBDA v : IsPairs(v.name))

\* pairRelations.keys(), in insertion order
PairKeys(variables) ==
    LET pb == PairsOnly(variables)
    IN  Dedup([i \in 1..Len(pb) |-> PairKey(pb[i].name)])

\* pairRelations.has(key)
HasPairs(variables, key) == Includes(PairKeys(variables), key)

\* pairRelations.get(key): the last binding set under the key wins
PairsOf(variables, key) ==
    LET pb == PairsOnly(variables)
        i  == CHOOSE k \in 1..Len(pb) :
                /\ PairKey(pb[k].name) = key
                /\ \A j \in (k + 1)..Len(pb) : PairKey(pb[j].name) # key
    IN  pb[i].value

\* relationGraph.keys()
GraphKeys(variables) ==
    LET pb == PairsOnly(variables)
    IN  Dedup([i \in 1..Len(pb) |-> PairKey(pb[i].name)[1]])

\* relationGraph.get(var1), empty when absent
GraphOut(variables, var1) ==
    LET pb   == PairsOnly(variables)
        mine == SelectSeq(pb, LAMBDA v : PairKey(v.name)[1] = var1)
    IN  Dedup([i \in 1..Len(mine) |-> PairKey(mine[i].name)[2]])

\* variableValues.has(currentVar): a plain binding whose whole name is the segment
HasValues(variables, var) ==
    \E i \in 1..Len(variables) :
        ~IsPairs(variables[i].name) /\ variables[i].name = <<var>>

\* Array.from(variableValues.get(currentVar))
ValuesOf(variables, var) ==
    LET pl == SelectSeq(PlainOnly(variables), LAMBDA v : v.name = <<var>>)
    IN  Dedup(pl[Len(pl)].value)

\* a variant that also chains the variables that have plain bindings only
AllVariablesWithPlain(variables) ==
    Dedup(Flatten(PairKeys(variables))
            \o [i \in 1..Len(PlainOnly(variables)) |-> PlainOnly(variables)[i].name[1]])

AllVariables(variables) == Dedup(Flatten(PairKeys(variables)))

FindConnections(variables, currentPath) ==
    IF currentPath = <<>> THEN AllVariables(variables)
    ELSE LET lastVar == currentPath[Len(currentPath)]
             out == SelectSeq(GraphOut(variables, lastVar),
                              LAMBDA c : ~Includes(currentPath, c))
             inc == SelectSeq(GraphKeys(variables),
                              LAMBDA v1 : /\ ~Includes(currentPath, v1)
                                          /\ Includes(GraphOut(variables, v1), lastVar))
         IN  out \o inc

\* possibleChains, in the order buildChains pushes them
RECURSIVE BuildChains(_, _)
BuildChains(variables, currentPath) ==
    IF Len(currentPath) = Len(AllVariables(variables)) THEN <<currentPath>>
    ELSE LET conn == FindConnections(variables, currentPath)
         IN  Flatten([i \in 1..Len(conn) |->
                        IF Includes(currentPath, conn[i]) THEN <<>>
                        ELSE BuildChains(variables, Append(currentPath, conn[i]))])

\* const chain = possibleChains[0], with the fallback of line 485
ChainOf(variables) ==
    LET possibleChains == BuildChains(variables, <<>>)
    IN  IF possibleChains = <<>> THEN AllVariables(variables)
        ELSE possibleChains[1]

\* potentialValues of buildTuples
PotentialValues(variables, currentVar) ==
    IF HasValues(variables, currentVar) THEN ValuesOf(variables, currentVar)
    ELSE LET keys == PairKeys(variables)
         IN  Dedup(Flatten([k \in 1..Len(keys) |->
                LET pairs == PairsOf(variables, keys[k])
                IN  IF keys[k][1] = currentVar
                      THEN [j \in 1..Len(pairs) |-> PartAt(pairs[j], 1)]
                    ELSE IF keys[k][2] = currentVar
                      THEN [j \in 1..Len(pairs) |-> PartAt(pairs[j], 2)]
                    ELSE <<>>]))

\* one round of the isValid loop: forwardKey, else backwardKey
PairCheck(variables, prevVar, prevValue, currentVar, value) ==
    LET forwardKey  == <<prevVar, currentVar>>
        backwardKey == <<currentVar, prevVar>>
    IN  IF HasPairs(variables, forwardKey)
          THEN \E p \in Range(PairsOf(variables, forwardKey)) :
                    PartAt(p, 1) = prevValue /\ PartAt(p, 2) = value
        ELSE IF HasPairs(variables, backwardKey)
          THEN \E p \in Range(PairsOf(variables, backwardKey)) :
                    PartAt(p, 1) = value /\ PartAt(p, 2) = prevValue
        ELSE TRUE

\* buildTuples(index, currentTuple): currentTuple holds chain[1..index-1]
RECURSIVE BuildTuples(_, _, _)
BuildTuples(variables, chain, currentTuple) ==
    IF Len(currentTuple) = Len(chain) THEN <<currentTuple>>
    ELSE LET currentVar == chain[Len(currentTuple) + 1]
             potential  == PotentialValues(variables, currentVar)
         IN  Flatten([j \in 1..Len(potential) |->
                IF \A i \in 1..Len(currentTuple) :
                      PairCheck(variables, chain[i], currentTuple[i],
                                currentVar, potential[j])
                THEN BuildTuples(variables, chain, Append(currentTuple, potential[j]))
                ELSE <<>>])

\* the rows; row r assigns r[i] to ChainOf(variables)[i]
GenerateTuples(variables) == BuildTuples(variables, ChainOf(variables), <<>>)

\* Object.values(tuple).join(","): undefined joins as the empty text, and
\* no values at all join to the empty string
JoinRow(tuple) ==
    IF tuple = <<>> THEN <<"">>
    ELSE Flatten([i \in 1..Len(tuple) |->
                    IF tuple[i] = Undef THEN <<"">> ELSE tuple[i]])

----------------------------------------------------------------------------
(* Weight band (evaluateQuery.ts:126-130).  A WEIGHT_PARAM token is the    *)
(* sequence of its characters; a band edge is the text the URL template    *)
(* prints for it.                                                          *)

MIN_WEIGHT == 30
MAX_WEIGHT == 999999
LIMIT == 900

Digits == <<"0", "1", "2", "3", "4", "5", "6", "7", "8", "9">>

IsDigit(c) == Includes(Digits, c)

DigitVal(c) == (CHOOSE i \in 1..10 : Digits[i] = c) - 1

\* `${n}` of a non-negative number
RECURSIVE NumText(_)
NumText(n) ==
    IF n < 10 THEN <<Digits[n + 1]>>
    ELSE Append(NumText(n \div 10), Digits[(n % 10) + 1])

\* the number a digit string denotes
RECURSIVE TextNum(_)
TextNum(t) ==
    IF Len(t) = 0 THEN 0
    ELSE 10 * TextNum(SubSeq(t, 1, Len(t) - 1)) + DigitVal(t[Len(t)])

AllDigits(t) == Len(t) > 0 /\ \A i \in 1..Len(t) : IsDigit(t[i])

\* value.includes(a + b) for two characters
IncludesTwo(t, a, b) == \E i \in 1..(Len(t) - 1) : t[i] = a /\ t[i + 1] = b

IsBandChar(c) == c \in {"<", ">", "="}

\* value.replace(/[<>=]/, ""): the regex has no g flag, so only the first
\* matching character is removed
ReplaceFirstBandChar(t) ==
    IF \E i \in 1..Len(t) : IsBandChar(t[i])
    THEN LET i == CHOOSE k \in 1..Len(t) :
                    IsBandChar(t[k]) /\ \A j \in 1..(k - 1) : ~IsBandChar(t[j])
         IN  SubSeq(t, 1, i - 1) \o SubSeq(t, i + 1, Len(t))
    ELSE t

\* value.replaceAll(/[0-9]/g, "")
RemoveDigits(t) == SelectSeq(t, LAMBDA c : ~IsDigit(c))

NoToken == <<>>

\* minWeight, maxWeight of evaluateSimpleQuery; token = NoToken when the
\* clause has no weightParam
WeightBand(token) ==
    LET has  == token # NoToken
        min0 == IF has /\ IncludesTwo(token, ">", "=")
                THEN ReplaceFirstBandChar(token) ELSE NumText(MIN_WEIGHT)
        max0 == IF has /\ IncludesTwo(token, "<", "=")
                THEN ReplaceFirstBandChar(token) ELSE NumText(MAX_WEIGHT)
    IN  IF has /\ RemoveDigits(token) = <<"=">>
        THEN [min |-> ReplaceFirstBandChar(token), max |-> ReplaceFirstBandChar(token)]
        ELSE [min |-> min0, max |-> max0]

----------------------------------------------------------------------------
(* Relation catalog and request keys.                                      *)

\* relations_dict.json: code -> id
Catalog == << [code |-> <<"r_isa">>, id |-> 6],
              [code |-> <<"r_has_part">>, id |-> 9] >>

\* query.relation.value.replace("!", ""): the first "!" goes
StripBang(rel) ==
    IF Includes(rel, "!")
    THEN LET i == CHOOSE k \in 1..Len(rel) :
                    rel[k] = "!" /\ \A j \in 1..(k - 1) : rel[j] # "!"
         IN  SubSeq(rel, 1, i - 1) \o SubSeq(rel, i + 1, Len(rel))
    ELSE rel

\* a variant that falls back to the first catalog entry for an unknown code
RelationIdWithFallback(rel) ==
    LET hit == SelectSeq(Catalog, LAMBDA e : e.code = StripBang(rel))
    IN  IF hit = <<>> THEN Catalog[1].id ELSE hit[1].id

\* relationsData.relations.find((v) => v.code === relation)?.id; 0 = undefined
RelationId(rel) ==
    LET hit == SelectSeq(Catalog, LAMBDA e : e.code = StripBang(rel))
    IN  IF hit = <<>> THEN 0 ELSE hit[1].id

\* the request URL, field by field
RelUrl(dir, val, relationId, band) ==
    [dir |-> dir, val |-> val, rel |-> relationId,
     min |-> band.min, max |-> band.max, limit |-> LIMIT]

NodesUrl ==
    [dir |-> "nodes", val |-> <<>>, rel |-> 0, min |-> <<>>, max |-> <<>>,
     limit |-> LIMIT]

----------------------------------------------------------------------------
(* The graph-lookup service.  A dataset is a list of nodes {id, name,      *)
(* type} and of edges {node1, node2, type, w}; it answers a relations      *)
(* request with the edges of the asked type and direction inside the       *)
(* weight band and the nodes those edges touch, and a nodes request with   *)
(* the nodes of type 1.                                                    *)

EmptyResult == [nodes |-> <<>>, relations |-> <<>>]

NodesWithIds(w, ids) == SelectSeq(w.nodes, LAMBDA n : n.id \in ids)

Upstream(w, url) ==
    IF url.dir = "nodes"
    THEN [nodes |-> SelectSeq(w.nodes, LAMBDA n : n.type = 1), relations |-> <<>>]
    ELSE IF ~(AllDigits(url.min) /\ AllDigits(url.max)) THEN EmptyResult
    ELSE LET self == {n.id : n \in {m \in Range(w.nodes) : m.name = url.val}}
             rels == SelectSeq(w.edges, LAMBDA e :
                        /\ e.type = url.rel
                        /\ TextNum(url.min) <= e.w /\ e.w <= TextNum(url.max)
                        /\ IF url.dir = "from" THEN e.node1 \in self
                                               ELSE e.node2 \in self)
             far  == {IF url.dir = "from" THEN e.node2 ELSE e.node1 : e \in Range(rels)}
         IN  [nodes |-> NodesWithIds(w, IF w.echo THEN self \cup far ELSE far),
              relations |-> rels]

----------------------------------------------------------------------------
(* The response cache (evaluateQuery.ts:5-16) and handleAPICall (27-49).   *)
(* The cache is a function from the stored URLs to {result, timestamp}.    *)

CACHE_TTL == 5 * 60 * 1000

CacheHas(cache, url) == url \in DOMAIN cache

CacheDelete(cache, url) == [u \in (DOMAIN cache) \ {url} |-> cache[u]]

CacheSet(cache, url, entry) ==
    [u \in (DOMAIN cache) \cup {url} |-> IF u = url THEN entry ELSE cache[u]]

\* a variant that still serves an entry exactly CACHE_TTL old
FreshLate(cache, url, t) ==
    CacheHas(cache, url) /\ t - cache[url].timestamp <= CACHE_TTL

\* the test of getFromCache, line 11
Fresh(cache, url, t) == CacheHas(cache, url) /\ t - cache[url].timestamp < CACHE_TTL

\* a variant whose hits hand back an empty response instead of the stored one
GetFromCacheEmptyHit(cache, url, t) ==
    IF Fresh(cache, url, t) THEN [found |-> TRUE, result |-> EmptyResult]
    ELSE [found |-> FALSE, result |-> EmptyResult]

\* getFromCache: what it returns (found = FALSE stands for null) ...
GetFromCache(cache, url, t) ==
    IF Fresh(cache, url, t) THEN [found |-> TRUE, result |-> cache[url].result]
    ELSE [found |-> FALSE, result |-> EmptyResult]

\* ... and the cache it leaves
AfterGet(cache, url, t) ==
    IF Fresh(cache, url, t) THEN cache ELSE CacheDelete(cache, url)

\* lines 39-44: the decoded body is stored and returned
StoreResult(cache, url, data, t) ==
    CacheSet(cache, url, [result |-> data, timestamp |-> t])

\* lines 45-48: the catch clause
FailureResult == EmptyResult

----------------------------------------------------------------------------
(* Reading a response (evaluateQuery.ts:52-77 and the inline filters).     *)
(* A grep is [on, match]: match is the set of names its RegExp accepts.    *)

NoGrep == [on |-> FALSE, match |-> {}]

RegexTest(regex, name) == name \in regex.match

\* if (regex) list = list.filter((n) => regex.test(n))
GrepFilter(regex, names) ==
    IF regex.on THEN SelectSeq(names, LAMBDA n : RegexTest(regex, n)) ELSE names

\* new Map(nodes.map((n) => [n.id, n.name])).get(id): the last node of that
\* id; Undef when there is none
NodeMapGet(nodes, id) ==
    LET hit == SelectSeq(nodes, LAMBDA n : n.id = id)
    IN  IF hit = <<>> THEN Undef ELSE hit[Len(hit)].name

\* data.nodes.filter((node) => node.type === 1).map((node) => node.name)
TypeOneNames(data) ==
    LET ns == SelectSeq(data.nodes, LAMBDA n : n.type = 1)
    IN  [i \in 1..Len(ns) |-> ns[i].name]

\* getRelatedEntities, after the call
RelatedEntities(data, relationId, regex) ==
    LET rels  == SelectSeq(data.relations, LAMBDA r : r.type = relationId)
        names == [i \in 1..Len(rels) |-> NodeMapGet(data.nodes, rels[i].node2)]
    IN  GrepFilter(regex, SelectSeq(names, LAMBDA n : n # Undef))

\* the pairs one node of the full scan contributes (lines 386-395)
ScanPairs(allNodes, nodeName, data, relationId, regex) ==
    LET rels  == SelectSeq(data.relations, LAMBDA r : r.type = relationId)
        names == [i \in 1..Len(rels) |-> NodeMapGet(allNodes, rels[i].node2)]
        kept  == SelectSeq(names, LAMBDA n :
                    /\ n # Undef /\ n # <<"">>
                    /\ (~regex.on \/ (RegexTest(regex, nodeName) /\ RegexTest(regex, n))))
    IN  [i \in 1..Len(kept) |-> nodeName \o kept[i]]

----------------------------------------------------------------------------
(* evaluateSimpleQuery (evaluateQuery.ts:119-408).  A clause is            *)
(* [subject, relation, object, weightParam, grep, negated]; a token is     *)
(* [type, value].  relatedEntitiesMap is a sequence of entries [k, v] in   *)
(* insertion order.                                                        *)

IsVar(tok) == tok.type = "VARIABLE"
IsEnt(tok) == tok.type = "ENTITY"

\* existingVariables.find((v) => v.name === name): found, and its value
Bound(existing, name) == FindIndex(existing, name) > 0
ValueIn(existing, name) ==
    IF Bound(existing, name) THEN existing[FindIndex(existing, name)].value ELSE <<>>

ClauseBand(clause) == WeightBand(clause.weightParam)

\* a variant that sends a clause between two entities down the path of a
\* clause whose variables are bound
ClauseModeEntitiesAsBound(clause, existing) ==
    IF IsVar(clause.subject) /\ IsEnt(clause.object) THEN "one"
    ELSE IF IsEnt(clause.subject) /\ IsVar(clause.object) THEN "one"
    ELSE IF IsVar(clause.subject) /\ IsVar(clause.object)
      THEN IF Bound(existing, clause.subject.value) \/ Bound(existing, clause.object.value)
           THEN "fan" ELSE "scan"
    ELSE "fan"

\* which lookups the clause makes: "none", "one", "fan" or "scan"
ClauseMode(clause, existing) ==
    IF IsVar(clause.subject) /\ IsEnt(clause.object) THEN "one"
    ELSE IF IsEnt(clause.subject) /\ IsVar(clause.object) THEN "one"
    ELSE IF IsVar(clause.subject) /\ IsVar(clause.object)
      THEN IF Bound(existing, clause.subject.value) \/ Bound(existing, clause.object.value)
           THEN "fan" ELSE "scan"
    ELSE "none"

\* the direction the clause's lookups use
ClauseDir(clause, existing) ==
    IF IsVar(clause.subject) /\ IsEnt(clause.object) THEN "to"
    ELSE IF IsEnt(clause.subject) /\ IsVar(clause.object) THEN "from"
    ELSE IF Bound(existing, clause.subject.value) THEN "from"
    ELSE "to"

\* the entities looked up, in the order the calls are made
ClauseTargets(clause, existing) ==
    IF IsVar(clause.subject) /\ IsEnt(clause.object) THEN <<clause.object.value>>
    ELSE IF IsEnt(clause.subject) /\ IsVar(clause.object) THEN <<clause.subject.value>>
    ELSE IF Bound(existing, clause.subject.value)
      THEN ValueIn(existing, clause.subject.value)
    ELSE ValueIn(existing, clause.object.value)

ClauseUrl(clause, existing, val) ==
    RelUrl(ClauseDir(clause, existing), val, RelationId(clause.relation.value),
           ClauseBand(clause))

\* what one completed lookup puts in relatedEntitiesMap (or, for a one-variable
\* clause, the names read from data.nodes)
LookupNames(clause, existing, data) ==
    IF IsVar(clause.subject) /\ IsVar(clause.object)
         /\ Bound(existing, clause.subject.value)
    THEN RelatedEntities(data, RelationId(clause.relation.value), clause.grep)
    ELSE TypeOneNames(data)

\* relatedEntitiesMap.set(k, v)
MapSet(rmap, k, v) ==
    IF \E i \in 1..Len(rmap) : rmap[i].k = k
    THEN [i \in 1..Len(rmap) |-> IF rmap[i].k = k THEN [k |-> k, v |-> v] ELSE rmap[i]]
    ELSE Append(rmap, [k |-> k, v |-> v])

\* relatedEntitiesMap.get(k) || []
MapGet(rmap, k) ==
    LET hit == SelectSeq(rmap, LAMBDA e : e.k = k)
    IN  IF hit = <<>> THEN <<>> ELSE hit[1].v

\* all values of the map, deduplicated in iteration order
MapAll(rmap) == Dedup(Flatten([i \in 1..Len(rmap) |-> rmap[i].v]))

\* cases 1 and 2: names are the type-1 node names of the one response
\* a resolver that keeps the matching values of a negated clause
OneVarValuesKeepMatching(clause, existing, var, names) ==
    IF clause.negated
    THEN GrepFilter(clause.grep,
            SelectSeq(ValueIn(existing, var), LAMBDA v : Includes(names, v)))
    ELSE GrepFilter(clause.grep, names)

OneVarValues(clause, existing, var, names) ==
    IF clause.negated
    THEN GrepFilter(clause.grep,
            SelectSeq(ValueIn(existing, var), LAMBDA v : ~Includes(names, v)))
    ELSE GrepFilter(clause.grep, names)

\* a pairing that does not look at the right variable's values
BothBoundPairsUnfiltered(leftValues, rightValues, rmap) ==
    Flatten([i \in 1..Len(leftValues) |->
        LET rel == MapGet(rmap, leftValues[i])
        IN  [j \in 1..Len(rel) |-> leftValues[i] \o rel[j]]])

\* processVariableToVariableRelation, lines 106-113
BothBoundPairs(leftValues, rightValues, rmap) ==
    Flatten([i \in 1..Len(leftValues) |->
        LET rel == SelectSeq(MapGet(rmap, leftValues[i]),
                             LAMBDA r : Includes(rightValues, r))
        IN  [j \in 1..Len(rel) |-> leftValues[i] \o rel[j]]])

\* lines 339-344
LeftBoundPairs(rmap) ==
    Flatten([i \in 1..Len(rmap) |->
        [j \in 1..Len(rmap[i].v) |-> rmap[i].k \o rmap[i].v[j]]])

\* lines 359-364
RightBoundPairs(rmap) ==
    Flatten([i \in 1..Len(rmap) |->
        [j \in 1..Len(rmap[i].v) |-> rmap[i].v[j] \o rmap[i].k]])

\* lines 229-237 and 255-263: left values against candidate right values
NegatedLeftPairs(leftValues, rightValues, rmap) ==
    Flatten([i \in 1..Len(leftValues) |->
        LET free == SelectSeq(rightValues,
                        LAMBDA r : ~Includes(MapGet(rmap, leftValues[i]), r))
        IN  [j \in 1..Len(free) |-> leftValues[i] \o free[j]]])

\* lines 283-291: candidate left values against the right values
NegatedRightPairs(leftValues, rightValues, rmap) ==
    Flatten([i \in 1..Len(leftValues) |->
        LET free == SelectSeq(rightValues,
                        LAMBDA r : ~Includes(MapGet(rmap, r), leftValues[i]))
        IN  [j \in 1..Len(free) |-> leftValues[i] \o free[j]]])

\* case 3 with at least one side bound: the valid pairs
FanPairs(clause, existing, rmap) ==
    LET l  == Bound(existing, clause.subject.value)
        r  == Bound(existing, clause.object.value)
        lv == ValueIn(existing, clause.subject.value)
        rv == ValueIn(existing, clause.object.value)
    IN  IF clause.negated
        THEN IF l /\ r THEN NegatedLeftPairs(lv, rv, rmap)
             ELSE IF l THEN NegatedLeftPairs(lv, MapAll(rmap), rmap)
             ELSE NegatedRightPairs(MapAll(rmap), rv, rmap)
        ELSE IF l /\ r THEN BothBoundPairs(lv, rv, rmap)
             ELSE IF l THEN LeftBoundPairs(rmap)
             ELSE RightBoundPairs(rmap)

\* the VariableContents evaluateSimpleQuery returns; pairs are the valid
\* pairs of a full scan
SimpleVariables(clause, existing, rmap, pairs) ==
    IF IsVar(clause.subject) /\ IsEnt(clause.object)
      THEN << [name  |-> clause.subject.value,
               value |-> OneVarValues(clause, existing, clause.subject.value,
                                      MapGet(rmap, clause.object.value))] >>
    ELSE IF IsEnt(clause.subject) /\ IsVar(clause.object)
      THEN << [name  |-> clause.object.value,
               value |-> OneVarValues(clause, existing, clause.object.value,
                                      MapGet(rmap, clause.subject.value))] >>
    ELSE << [name  |-> PairName(clause.subject.value, clause.object.value),
             value |-> IF ClauseMode(clause, existing) = "scan" THEN pairs
                       ELSE FanPairs(clause, existing, rmap)] >>

----------------------------------------------------------------------------
(* evaluateQuery (evaluateQuery.ts:560-667).                               *)

\* a merge that adds the clause's values to the existing binding's
RECURSIVE MergeVariablesKeepingPrior(_, _)
MergeVariablesKeepingPrior(merged, variables) ==
    IF variables = <<>> THEN merged
    ELSE LET newVar == Head(variables)
             i == FindIndex(merged, newVar.name)
         IN  MergeVariablesKeepingPrior(
                IF i > 0
                THEN [merged EXCEPT ![i] =
                        [name |-> newVar.name,
                         value |-> Dedup(merged[i].value \o newVar.value)]]
                ELSE Append(merged, newVar),
                Tail(variables))

\* lines 567-575: the clause's bindings replace or extend the existing ones
RECURSIVE MergeVariables(_, _)
MergeVariables(merged, variables) ==
    IF variables = <<>> THEN merged
    ELSE LET newVar == Head(variables)
             i == FindIndex(merged, newVar.name)
         IN  MergeVariables(
                IF i > 0 THEN [merged EXCEPT ![i] = newVar] ELSE Append(merged, newVar),
                Tail(variables))

\* line 577: the SimpleQuery result
SimpleResult(existing, variables) ==
    [result    |-> IF variables = <<>> THEN <<>> ELSE variables[1].value,
     variables |-> MergeVariables(existing, variables)]

EmptyQueryResult == [result |-> <<>>, variables |-> <<>>]

\* line 593
Intersection(l, r) == SelectSeq(l, LAMBDA x : Includes(r, x))

\* lines 589-609: combinedVariables of an AND node
AndVariables(leftVars, rightVars) ==
    LET shared == Flatten([i \in 1..Len(leftVars) |->
                    LET j == FindIndex(rightVars, leftVars[i].name)
                    IN  IF j > 0
                        THEN LET inter == Intersection(leftVars[i].value, rightVars[j].value)
                             IN  IF Len(inter) > 0
                                 THEN << [name |-> leftVars[i].name, value |-> inter] >>
                                 ELSE <<>>
                        ELSE << leftVars[i] >>])
        extra  == SelectSeq(rightVars, LAMBDA v : FindIndex(leftVars, v.name) = 0)
    IN  shared \o extra

\* an OR in which the right side's binding takes the place of the left's
RECURSIVE OrVariablesRightWins(_, _)
OrVariablesRightWins(combinedVariables, rightVars) ==
    IF rightVars = <<>> THEN combinedVariables
    ELSE LET rightVar == Head(rightVars)
             i == FindIndex(combinedVariables, rightVar.name)
         IN  OrVariablesRightWins(
                IF i > 0
                THEN [combinedVariables EXCEPT ![i].value = rightVar.value]
                ELSE Append(combinedVariables, rightVar),
                Tail(rightVars))

\* lines 622-630: combinedVariables of an OR node
RECURSIVE OrVariables(_, _)
OrVariables(combinedVariables, rightVars) ==
    IF rightVars = <<>> THEN combinedVariables
    ELSE LET rightVar == Head(rightVars)
             i == FindIndex(combinedVariables, rightVar.name)
         IN  OrVariables(
                IF i > 0
                THEN [combinedVariables EXCEPT
                        ![i].value = Dedup(combinedVariables[i].value \o rightVar.value)]
                ELSE Append(combinedVariables, rightVar),
                Tail(rightVars))

\* lines 584-587, 611-613, 615-620: the node returns before any join
EarlyReturn(operator, leftResult, rightResult) ==
    IF operator = "AND"
    THEN \/ leftResult.variables = <<>>
         \/ rightResult.variables = <<>>
         \/ \E v \in Range(AndVariables(leftResult.variables, rightResult.variables)) :
                Len(v.value) = 0
    ELSE leftResult.variables = <<>> \/ rightResult.variables = <<>>

\* an early return that rebuilds the rows of the side it returns
EarlyResultRejoined(operator, leftResult, rightResult) ==
    IF operator = "AND" THEN EmptyQueryResult
    ELSE LET side   == IF leftResult.variables = <<>> THEN rightResult ELSE leftResult
             tuples == GenerateTuples(side.variables)
         IN  [result    |-> [i \in 1..Len(tuples) |-> JoinRow(tuples[i])],
              variables |-> side.variables]

EarlyResult(operator, leftResult, rightResult) ==
    IF operator = "AND" THEN EmptyQueryResult
    ELSE IF leftResult.variables = <<>> THEN rightResult
    ELSE leftResult

CombinedVariables(operator, leftResult, rightResult) ==
    IF operator = "AND" THEN AndVariables(leftResult.variables, rightResult.variables)
    ELSE OrVariables(leftResult.variables, rightResult.variables)

\* lines 647-651: the values of one side of a pair binding, deduplicated
PairSide(pairs, side) == Dedup([i \in 1..Len(pairs) |-> PartAt(pairs[i], side)])

\* lines 641-663: plain bindings overwritten from each pair binding in turn
RECURSIVE Project(_, _)
Project(filteredVariables, pairsVariables) ==
    IF pairsVariables = <<>> THEN filteredVariables
    ELSE LET pairVar == Head(pairsVariables)
             var1 == SegAt(BeforePairs(pairVar.name), 1)
             var2 == SegAt(BeforePairs(pairVar.name), 2)
             i1 == FindIndex(filteredVariables, <<var1>>)
             f1 == IF i1 > 0
                   THEN [filteredVariables EXCEPT ![i1].value = PairSide(pairVar.value, 1)]
                   ELSE filteredVariables
             i2 == FindIndex(f1, <<var2>>)
             f2 == IF i2 > 0
                   THEN [f1 EXCEPT ![i2].value = PairSide(pairVar.value, 2)]
                   ELSE f1
         IN  Project(f2, Tail(pairsVariables))

\* lines 633-665
JoinResult(combinedVariables) ==
    LET tuples == GenerateTuples(combinedVariables)
    IN  [result    |-> [i \in 1..Len(tuples) |-> JoinRow(tuples[i])],
         variables |-> Project(combinedVariables, PairsOnly(combinedVariables))]

\* the value of a CompoundQuery node from the values of its children
CompoundResult(operator, leftResult, rightResult) ==
    IF EarlyReturn(operator, leftResult, rightResult)
    THEN EarlyResult(operator, leftResult, rightResult)
    ELSE JoinResult(CombinedVariables(operator, leftResult, rightResult))

----------------------------------------------------------------------------
(* Bounds, datasets and queries.                                           *)

MaxRuns == 2        \* times the query is run, one after the other, on the shared cache
MaxTokenLen == 3    \* characters of a WEIGHT_PARAM token
MaxTicks == 2       \* clock advances
MaxFails == 1       \* lookups that throw, per query

Lion == <<"lion">>
Cat == <<"cat">>
Animal == <<"animal">>
Mane == <<"mane">>

Node(id, name, type) == [id |-> id, name |-> name, type |-> type]
Edge(n1, n2, type, w) == [node1 |-> n1, node2 |-> n2, type |-> type, w |-> w]

\* lion and cat are animals, the lion has a mane (the cat's is below the
\* default weight band)
BaseEdges == << Edge(1, 3, 6, 50), Edge(2, 3, 6, 50), Edge(1, 4, 9, 40),
                Edge(2, 4, 9, 10) >>

\* echo: whether a relations answer lists the asked node among its nodes
Worlds ==
    { [nodes |-> << Node(1, Lion, 1), Node(2, Cat, 1), Node(3, Animal, 1),
                    Node(4, Mane, 1) >>,
       edges |-> BaseEdges, echo |-> FALSE],
      [nodes |-> << Node(1, Lion, 1), Node(2, Cat, 1), Node(3, Animal, 1),
                    Node(4, Mane, 2), Node(5, Lion, 1) >>,
       edges |-> BaseEdges \o << Edge(5, 3, 6, 50) >>, echo |-> TRUE] }

Var(name) == [type |-> "VARIABLE", value |-> <<name>>]
Ent(name) == [type |-> "ENTITY", value |-> name]
Rel(text) == [type |-> "RELATION", value |-> text]

\* createSimpleQuery: negated is read off the relation token (parseQuery.ts:219)
ClauseOf(subject, relation, object) ==
    [subject |-> subject, relation |-> Rel(relation), object |-> object,
     weightParam |-> NoToken, grep |-> NoGrep, negated |-> relation[1] = "!"]

Isa == <<"r_isa">>
HasPart == <<"r_has_part">>
NotHasPart == <<"!", "r_has_part">>
Unknown == <<"r_unknown">>
NotUnknown == <<"!", "r_unknown">>
NotIsa == <<"!", "r_isa">>

\* a left-leaning chain c1 op1 c2 op2 c3 ..., as expression() builds it
Chain(clauses, ops) == [clauses |-> clauses, ops |-> ops]

Queries ==
    { Chain(<< ClauseOf(Var("$x"), Isa, Ent(Animal)) >>, <<>>),
      Chain(<< ClauseOf(Ent(Lion), HasPart, Var("$y")) >>, <<>>),
      Chain(<< ClauseOf(Ent(Lion), Isa, Ent(Animal)) >>, <<>>),
      Chain(<< ClauseOf(Ent(Lion), Unknown, Ent(Animal)) >>, <<>>),
      Chain(<< ClauseOf(Var("$x"), NotUnknown, Ent(Animal)) >>, <<>>),
      Chain(<< ClauseOf(Var("$x"), Isa, Ent(Animal)),
               ClauseOf(Var("$x"), Unknown, Var("$y")) >>, << "AND" >>),
      Chain(<< ClauseOf(Var("$x"), Isa, Ent(Animal)),
               ClauseOf(Var("$x"), HasPart, Ent(Mane)) >>, << "AND" >>),
      Chain(<< ClauseOf(Var("$x"), Isa, Ent(Animal)),
               ClauseOf(Var("$x"), Isa, Ent(Mane)) >>, << "AND" >>),
      Chain(<< ClauseOf(Var("$x"), Isa, Ent(Animal)),
               ClauseOf(Var("$x"), HasPart, Ent(Mane)) >>, << "OR" >>),
      Chain(<< ClauseOf(Var("$x"), Isa, Ent(Animal)),
               ClauseOf(Var("$x"), NotHasPart, Ent(Mane)) >>, << "AND" >>),
      Chain(<< ClauseOf(Var("$x"), Isa, Ent(Animal)),
               ClauseOf(Var("$x"), HasPart, Var("$y")) >>, << "AND" >>),
      Chain(<< ClauseOf(Var("$x"), Isa, Var("$y")),
               ClauseOf(Var("$y"), HasPart, Var("$x")) >>, << "AND" >>),
      Chain(<< ClauseOf(Var("$x"), Isa, Var("$y")),
               ClauseOf(Var("$y"), HasPart, Ent(Mane)) >>, << "AND" >>),
      Chain(<< ClauseOf(Var("$y"), HasPart, Ent(Mane)),
               ClauseOf(Var("$x"), Isa, Ent(Animal)),
               ClauseOf(Var("$x"), Isa, Ent(Mane)) >>, << "AND", "AND" >>),
      \* negated clauses on two variables: neither bound, left bound, right
      \* bound, both bound
      Chain(<< ClauseOf(Var("$x"), NotIsa, Var("$y")) >>, <<>>),
      Chain(<< ClauseOf(Var("$x"), Isa, Ent(Animal)),
               ClauseOf(Var("$x"), NotHasPart, Var("$y")) >>, << "AND" >>),
      Chain(<< ClauseOf(Ent(Lion), Isa, Var("$y")),
               ClauseOf(Var("$x"), NotIsa, Var("$y")) >>, << "AND" >>),
      Chain(<< ClauseOf(Var("$x"), Isa, Ent(Animal)),
               ClauseOf(Ent(Lion), HasPart, Var("$y")),
               ClauseOf(Var("$x"), NotHasPart, Var("$y")) >>, << "AND", "AND" >>),
      \* a negated clause word !r_rel $y on a bound variable
      Chain(<< ClauseOf(Ent(Cat), Isa, Var("$y")),
               ClauseOf(Ent(Lion), NotIsa, Var("$y")) >>, << "AND" >>),
      \* a variable bound twice by one-variable clauses
      Chain(<< ClauseOf(Ent(Lion), HasPart, Var("$y")),
               ClauseOf(Ent(Lion), Isa, Var("$y")) >>, << "AND" >>),
      \* a clause on two variables that are both bound
      Chain(<< ClauseOf(Var("$x"), Isa, Ent(Animal)),
               ClauseOf(Ent(Lion), HasPart, Var("$y")),
               ClauseOf(Var("$x"), HasPart, Var("$y")) >>, << "AND", "AND" >>),
      \* an OR whose left side is an AND that came out empty
      Chain(<< ClauseOf(Var("$x"), Isa, Ent(Animal)),
               ClauseOf(Var("$y"), Isa, Ent(Mane)),
               ClauseOf(Var("$x"), Isa, Ent(Animal)) >>, << "AND", "OR" >>),
      \* an OR with a variable on one side only
      Chain(<< ClauseOf(Var("$x"), Isa, Ent(Animal)),
               ClauseOf(Ent(Lion), HasPart, Var("$y")) >>, << "OR" >>),
      \* an OR whose sides bind one variable to different values
      Chain(<< ClauseOf(Ent(Lion), Isa, Var("$y")),
               ClauseOf(Ent(Lion), HasPart, Var("$y")) >>, << "OR" >>),
      \* a negated one-variable clause on a variable without a binding, on
      \* the left and on the right of an AND
      Chain(<< ClauseOf(Var("$x"), NotIsa, Ent(Animal)),
               ClauseOf(Var("$x"), HasPart, Ent(Mane)) >>, << "AND" >>),
      Chain(<< ClauseOf(Var("$x"), NotIsa, Ent(Animal)),
               ClauseOf(Ent(Lion), HasPart, Var("$y")) >>, << "AND" >>),
      Chain(<< ClauseOf(Ent(Lion), HasPart, Var("$y")),
               ClauseOf(Ent(Lion), NotIsa, Var("$x")) >>, << "AND" >>) }

----------------------------------------------------------------------------
(* The GET handler running evaluateQuery (route.ts:4-28,                   *)
(* evaluateQuery.ts:560-667).  The recursion over a left-leaning chain     *)
(* evaluates clause 1, then for each further clause i the right child      *)
(* with the variables of the left result, and combines.                    *)

NoQuery == Chain(<<>>, <<>>)
NoScan == [on |-> FALSE, nodes |-> <<>>, i |-> 0, processed |-> <<>>, pairs |-> <<>>]
NoCombined == [on |-> FALSE]
NoResponse == [sent |-> FALSE]
NoError == <<>>

CurrentClause == query.clauses[idx]

\* a variant in which the right clause is evaluated without the left's bindings
NoExisting == <<>>

\* the existingVariables argument of the clause under evaluation
Existing == IF idx = 1 THEN <<>> ELSE acc.variables

\* the JSON bodies of route.ts:14-19 and 21-26
OkResponse(r) ==
    [sent |-> TRUE, error |-> NoError, variables |-> r.variables, result |-> r.result]
\* a catch that answers with what evaluation had computed so far
ErrorResponseKeepingBindings(message) ==
    [sent |-> TRUE, error |-> message, variables |-> acc.variables,
     result |-> acc.result]

\* route.ts:20-27
ErrorResponse(message) ==
    [sent |-> TRUE, error |-> message, variables |-> <<>>, result |-> <<>>]

\* `Relation "${relation}" not recognized`
NotRecognized(rel) == <<"Relation", StripBang(rel), "not recognized">>
\* `Invalid API URL ${apiUrl} or case not implemented`
NotImplemented == <<"Invalid API URL", "", "or case not implemented">>

\* a call of handleAPICall that missed the cache; ret is what it returned
Task(clause, kind, k, url) ==
    [clause |-> clause, kind |-> kind, k |-> k, url |-> url, st |-> "fetching",
     threw |-> FALSE, ret |-> EmptyResult]

Fetching(ts) == SelectSeq(ts, LAMBDA t : t.st = "fetching")

\* await Promise.all(...) / await handleAPICall(...): nothing is in flight
AllDone(ts) == Fetching(ts) = <<>>

\* the cache after getFromCache has run for each URL in turn at time t
RECURSIVE AfterGets(_, _, _)
AfterGets(cache, urls, t) ==
    IF urls = <<>> THEN cache
    ELSE AfterGets(AfterGet(cache, Head(urls), t), Tail(urls), t)

\* relatedEntitiesMap after the cache hits among targets resolved, in order
RECURSIVE HitEntries(_, _, _, _)
HitEntries(entries, clause, existing, targets) ==
    IF targets = <<>> THEN entries
    ELSE LET url == ClauseUrl(clause, existing, Head(targets))
             got == GetFromCache(apiCache, url, now)
         IN  HitEntries(
                IF got.found
                THEN MapSet(entries, Head(targets), LookupNames(clause, existing, got.result))
                ELSE entries,
                clause, existing, Tail(targets))

NoBand == [parsed |-> FALSE]

\* the other checks' variables at rest
NoLexer == [on |-> FALSE]

NoCodec == [on |-> FALSE]

EvalIdle ==
    /\ query = NoQuery /\ pc = "idle" /\ idx = 0 /\ acc = EmptyQueryResult
    /\ tasks = <<>> /\ relMap = <<>> /\ scan = NoScan /\ combined = NoCombined
    /\ resp = NoResponse /\ log = <<>> /\ failed = 0 /\ runs = 0

Init ==
    /\ apiCache = <<>> /\ now = 0 /\ ticks = 0
    /\ world \in Worlds
    /\ EvalIdle
    /\ wtoken = NoToken /\ wband = NoBand /\ callers = <<>>
    /\ input = <<>> /\ parsed = [done |-> FALSE]
    /\ lexer = NoLexer /\ codec = NoCodec

OtherChecksIdle == UNCHANGED <<wtoken, wband, callers, input, parsed, lexer, codec>>

\* GET: the parsed query goes to executeQuery; a later request repeats it
StartQuery(q) ==
    /\ pc = "idle" /\ runs < MaxRuns
    /\ runs = 0 \/ q = query
    /\ query' = q /\ idx' = 1 /\ pc' = "clause" /\ runs' = runs + 1
    /\ acc' = EmptyQueryResult /\ tasks' = <<>> /\ relMap' = <<>> /\ scan' = NoScan
    /\ combined' = NoCombined /\ resp' = NoResponse /\ log' = <<>> /\ failed' = 0
    /\ UNCHANGED <<apiCache, now, world, ticks>>
    /\ OtherChecksIdle

\* the throw leaves evaluateQuery and is caught by GET (route.ts:20-27)
Throw(message) ==
    /\ pc' = "idle" /\ resp' = ErrorResponse(message)
    /\ UNCHANGED <<apiCache, now, world, query, idx, acc, tasks, relMap, scan,
                   combined, log, failed, runs, ticks>>
    /\ OtherChecksIdle

\* lines 133-137
ThrowUnknownRelation ==
    /\ pc = "clause"
    /\ RelationId(CurrentClause.relation.value) = 0
    /\ Throw(NotRecognized(CurrentClause.relation.value))

\* lines 403-405
ThrowNotImplemented ==
    /\ pc = "clause"
    /\ RelationId(CurrentClause.relation.value) # 0
    /\ ClauseMode(CurrentClause, Existing) = "none"
    /\ Throw(NotImplemented)

\* cases 1, 2 and 3 with a bound side: every call runs to its fetch
IssueLookups ==
    /\ pc = "clause"
    /\ RelationId(CurrentClause.relation.value) # 0
    /\ ClauseMode(CurrentClause, Existing) \in {"one", "fan"}
    /\ LET targets == ClauseTargets(CurrentClause, Existing)
           urls    == [i \in 1..Len(targets) |->
                        ClauseUrl(CurrentClause, Existing, targets[i])]
           missed  == SelectSeq([i \in 1..Len(targets) |->
                                   Task(idx, "rel", targets[i], urls[i])],
                                LAMBDA t : ~GetFromCache(apiCache, t.url, now).found)
       IN  /\ apiCache' = AfterGets(apiCache, urls, now)
           /\ relMap' = HitEntries(<<>>, CurrentClause, Existing, targets)
           /\ tasks' = Fetching(tasks) \o missed
           /\ log' = log \o [i \in 1..Len(missed) |->
                                [clause |-> idx, url |-> missed[i].url]]
    /\ pc' = "wait" /\ scan' = NoScan
    /\ UNCHANGED <<now, world, query, idx, acc, combined, resp, failed, runs, ticks>>
    /\ OtherChecksIdle

\* case 3 with neither side bound: the nodes list first (lines 294-295, 369-370)
BeginScan ==
    /\ pc = "clause"
    /\ RelationId(CurrentClause.relation.value) # 0
    /\ ClauseMode(CurrentClause, Existing) = "scan"
    /\ LET got == GetFromCache(apiCache, NodesUrl, now)
       IN  /\ apiCache' = AfterGet(apiCache, NodesUrl, now)
           /\ IF got.found
              THEN /\ scan' = [on |-> TRUE, nodes |-> got.result.nodes, i |-> 1,
                               processed |-> <<>>, pairs |-> <<>>]
                   /\ pc' = "scan"
                   /\ tasks' = Fetching(tasks)
                   /\ log' = log
              ELSE /\ scan' = NoScan
                   /\ pc' = "wait"
                   /\ tasks' = Append(Fetching(tasks), Task(idx, "nodes", <<>>, NodesUrl))
                   /\ log' = Append(log, [clause |-> idx, url |-> NodesUrl])
    /\ relMap' = <<>>
    /\ UNCHANGED <<now, world, query, idx, acc, combined, resp, failed, runs, ticks>>
    /\ OtherChecksIdle

ScanUrl(nodeName) ==
    RelUrl("from", nodeName, RelationId(CurrentClause.relation.value),
           ClauseBand(CurrentClause))

\* the scan after the answer for nodes[i] arrived
ScanAdvance(data) ==
    [scan EXCEPT
        !.pairs = @ \o ScanPairs(scan.nodes, scan.nodes[scan.i].name, data,
                                 RelationId(CurrentClause.relation.value),
                                 CurrentClause.grep),
        !.i = @ + 1]

\* one round of the for loop of lines 300-320 / 376-396, up to its await
ScanStep ==
    /\ pc = "scan" /\ scan.i <= Len(scan.nodes)
    /\ LET nodeName == scan.nodes[scan.i].name
           got == GetFromCache(apiCache, ScanUrl(nodeName), now)
       IN  IF Includes(scan.processed, nodeName)
           THEN /\ scan' = [scan EXCEPT !.i = @ + 1]
                /\ UNCHANGED <<apiCache, tasks, log, pc>>
           ELSE /\ apiCache' = AfterGet(apiCache, ScanUrl(nodeName), now)
                /\ IF got.found
                   THEN /\ scan' = [ScanAdvance(got.result) EXCEPT
                                        !.processed = Append(@, nodeName)]
                        /\ UNCHANGED <<tasks, log, pc>>
                   ELSE /\ scan' = [scan EXCEPT !.processed = Append(@, nodeName)]
                        /\ tasks' = Append(Fetching(tasks),
                                           Task(idx, "scanrel", nodeName, ScanUrl(nodeName)))
                        /\ log' = Append(log, [clause |-> idx, url |-> ScanUrl(nodeName)])
                        /\ pc' = "wait"
    /\ UNCHANGED <<now, world, query, idx, acc, relMap, combined, resp, failed,
                   runs, ticks>>
    /\ OtherChecksIdle

\* a variant in which the later of two answers for one key arrives empty
DeliverLosingRace(i, data, threw) ==
    LET raced == \E j \in 1..Len(tasks) :
                    j # i /\ tasks[j].url = tasks[i].url /\ tasks[j].st = "done"
        got   == IF raced THEN EmptyResult ELSE data
    IN  /\ tasks' = [tasks EXCEPT ![i].st = "done", ![i].ret = got, ![i].threw = threw]
        /\ IF tasks[i].kind = "rel"
           THEN /\ relMap' = MapSet(relMap, tasks[i].k,
                                    LookupNames(CurrentClause, Existing, got))
                /\ UNCHANGED <<scan, pc>>
           ELSE IF tasks[i].kind = "nodes"
           THEN /\ scan' = [on |-> TRUE, nodes |-> got.nodes, i |-> 1,
                            processed |-> <<>>, pairs |-> <<>>]
                /\ pc' = "scan"
                /\ UNCHANGED relMap
           ELSE /\ scan' = ScanAdvance(got)
                /\ pc' = "scan"
                /\ UNCHANGED relMap

\* the continuation of the call that awaited task i, given what handleAPICall returned
Deliver(i, data, threw) ==
    /\ tasks' = [tasks EXCEPT ![i].st = "done", ![i].ret = data, ![i].threw = threw]
    /\ IF tasks[i].kind = "rel"
       THEN /\ relMap' = MapSet(relMap, tasks[i].k,
                                LookupNames(CurrentClause, Existing, data))
            /\ UNCHANGED <<scan, pc>>
       ELSE IF tasks[i].kind = "nodes"
       THEN /\ scan' = [on |-> TRUE, nodes |-> data.nodes, i |-> 1,
                        processed |-> <<>>, pairs |-> <<>>]
            /\ pc' = "scan"
            /\ UNCHANGED relMap
       ELSE /\ scan' = ScanAdvance(data)
            /\ pc' = "scan"
            /\ UNCHANGED relMap

\* lines 35-44: the fetch resolved and the body decoded
FetchOk(i) ==
    /\ pc = "wait" /\ i \in 1..Len(tasks) /\ tasks[i].st = "fetching"
    /\ LET data == Upstream(world, tasks[i].url)
       IN  /\ apiCache' = StoreResult(apiCache, tasks[i].url, data, now)
           /\ Deliver(i, data, FALSE)
    /\ UNCHANGED <<now, world, query, idx, acc, combined, resp, log, failed, runs, ticks>>
    /\ OtherChecksIdle

\* a variant in which the failure leaves handleAPICall and reaches GET
FetchFailRaises(i) ==
    /\ pc = "wait" /\ i \in 1..Len(tasks) /\ tasks[i].st = "fetching"
    /\ failed < MaxFails
    /\ failed' = failed + 1
    /\ tasks' = [tasks EXCEPT ![i].st = "done", ![i].threw = TRUE]
    /\ pc' = "idle" /\ resp' = ErrorResponse(<<"fetch failed">>)
    /\ UNCHANGED <<apiCache, now, world, query, idx, acc, relMap, scan, combined,
                   log, runs, ticks>>
    /\ OtherChecksIdle

\* lines 45-48: fetch or res.json() threw
FetchFail(i) ==
    /\ pc = "wait" /\ i \in 1..Len(tasks) /\ tasks[i].st = "fetching"
    /\ failed < MaxFails
    /\ failed' = failed + 1
    /\ Deliver(i, FailureResult, TRUE)
    /\ UNCHANGED <<apiCache, now, world, query, idx, acc, combined, resp, log, runs, ticks>>
    /\ OtherChecksIdle

\* the clause's lookups are over: evaluateSimpleQuery returns, the SimpleQuery
\* branch merges, the enclosing CompoundQuery combines, and the root answers
FinishReady ==
    \/ pc = "wait" /\ ClauseMode(CurrentClause, Existing) # "scan" /\ AllDone(tasks)
    \/ pc = "scan" /\ scan.i > Len(scan.nodes)

FinishClause ==
    /\ FinishReady
    /\ LET variables == SimpleVariables(CurrentClause, Existing, relMap, scan.pairs)
           right == SimpleResult(Existing, variables)
           op    == query.ops[idx - 1]
           node  == IF idx = 1 THEN right ELSE CompoundResult(op, acc, right)
       IN  /\ acc' = node
           /\ combined' =
                IF idx = 1 THEN NoCombined
                ELSE [on |-> TRUE, operator |-> op, left |-> acc, right |-> right,
                      early |-> EarlyReturn(op, acc, right),
                      variables |-> IF EarlyReturn(op, acc, right) THEN <<>>
                                    ELSE CombinedVariables(op, acc, right),
                      chain |-> IF EarlyReturn(op, acc, right) THEN <<>>
                                ELSE ChainOf(CombinedVariables(op, acc, right)),
                      tuples |-> IF EarlyReturn(op, acc, right) THEN <<>>
                                 ELSE GenerateTuples(CombinedVariables(op, acc, right))]
           /\ IF idx = Len(query.clauses)
              THEN pc' = "idle" /\ resp' = OkResponse(node) /\ idx' = idx
              ELSE pc' = "clause" /\ resp' = resp /\ idx' = idx + 1
    /\ UNCHANGED <<apiCache, now, world, query, tasks, relMap, scan, log, failed,
                   runs, ticks>>
    /\ OtherChecksIdle

\* between two requests: long enough for every entry to expire
QueryTickSteps == {CACHE_TTL}

\* around the expiry of an entry, to the millisecond
TickSteps == {1, CACHE_TTL - 1}

\* time passes between two requests
Tick(d) ==
    /\ ticks < MaxTicks /\ pc = "idle"
    /\ 0 < runs /\ runs < MaxRuns
    /\ now' = now + d /\ ticks' = ticks + 1
    /\ UNCHANGED <<apiCache, world, query, pc, idx, acc, tasks, relMap, scan,
                   combined, resp, log, failed, runs>>
    /\ OtherChecksIdle

Next ==
    \/ \E q \in Queries : StartQuery(q)
    \/ ThrowUnknownRelation
    \/ ThrowNotImplemented
    \/ IssueLookups
    \/ BeginScan
    \/ ScanStep
    \/ \E i \in 1..Len(tasks) : FetchOk(i)
    \/ \E i \in 1..Len(tasks) : FetchFail(i)
    \/ FinishClause
    \/ \E d \in QueryTickSteps : Tick(d)

Spec == Init /\ [][Next]_vars

----------------------------------------------------------------------------
(* The weight band on its own: a WEIGHT_PARAM token as the lexer can emit  *)
(* it (parseQuery.ts:138-142: a first character among < > = and then any   *)
(* identifier characters), and the band evaluateSimpleQuery computes.      *)

WeightAlphabet == {"<", ">", "=", "5", "0"}

WeightTokens ==
    {t \in UNION {[1..n -> WeightAlphabet] : n \in 1..MaxTokenLen} : IsBandChar(t[1])}

InitWeight ==
    /\ apiCache = <<>> /\ now = 0 /\ ticks = 0
    /\ world \in Worlds
    /\ EvalIdle
    /\ wtoken \in WeightTokens \cup {NoToken} /\ wband = NoBand /\ callers = <<>>
    /\ input = <<>> /\ parsed = [done |-> FALSE]
    /\ lexer = NoLexer /\ codec = NoCodec

\* lines 126-130 for the clause carrying the token
ParseWeight ==
    /\ ~wband.parsed
    /\ wband' = [parsed |-> TRUE, min |-> WeightBand(wtoken).min,
                 max |-> WeightBand(wtoken).max]
    /\ UNCHANGED <<apiCache, now, world, query, pc, idx, acc, tasks, relMap, scan,
                   combined, resp, log, failed, runs, ticks, wtoken, callers,
                   input, parsed, lexer, codec>>

NextWeight == ParseWeight

SpecWeight == InitWeight /\ [][NextWeight]_vars

----------------------------------------------------------------------------
(* The graph client on its own: callers of handleAPICall that share the    *)
(* cache (concurrent requests of one process), a clock that advances while *)
(* fetches are in flight, and an upstream that may change.                 *)

NumCallers == 2
MaxCalls == 3         \* calls of handleAPICall in all

ClientUrls ==
    { RelUrl("to", Animal, 6, WeightBand(NoToken)),
      RelUrl("from", Lion, 9, WeightBand(NoToken)) }

IdleCaller == [st |-> "idle"]

InitClient ==
    /\ apiCache = <<>> /\ now = 0 /\ ticks = 0
    /\ world \in Worlds
    /\ EvalIdle
    /\ wtoken = NoToken /\ wband = NoBand
    /\ callers = [c \in 1..NumCallers |-> IdleCaller]
    /\ input = <<>> /\ parsed = [done |-> FALSE]
    /\ lexer = NoLexer /\ codec = NoCodec

ClientFrame ==
    UNCHANGED <<query, pc, idx, acc, tasks, relMap, scan, combined, resp, log,
                failed, wtoken, wband, input, parsed, lexer, codec>>

\* handleAPICall up to its first await (lines 28-35); the record keeps what
\* the call saw: the entry it found, whether it was served from the cache,
\* whether a request went out, and whether the entry is gone afterwards
ClientCall(c, url) ==
    /\ callers[c].st \in {"idle", "returned"}
    /\ runs < MaxCalls /\ runs' = runs + 1
    /\ LET got == GetFromCache(apiCache, url, now)
       IN  /\ apiCache' = AfterGet(apiCache, url, now)
           /\ callers' = [callers EXCEPT ![c] =
                [st     |-> IF got.found THEN "returned" ELSE "fetching",
                 url    |-> url,
                 at     |-> now,
                 had    |-> CacheHas(apiCache, url),
                 entry  |-> IF CacheHas(apiCache, url) THEN apiCache[url]
                            ELSE [result |-> EmptyResult, timestamp |-> 0],
                 hit    |-> got.found,
                 issued |-> ~got.found,
                 gone   |-> ~CacheHas(AfterGet(apiCache, url, now), url),
                 raced  |-> /\ ~got.found
                            /\ \E d \in 1..NumCallers :
                                  /\ d # c /\ callers[d].st = "fetching"
                                  /\ callers[d].url = url,
                 threw  |-> FALSE,
                 ret    |-> got.result]]
    /\ UNCHANGED <<now, world, ticks>>
    /\ ClientFrame

\* lines 35-44
ClientResolve(c) ==
    /\ callers[c].st = "fetching"
    /\ LET data == Upstream(world, callers[c].url)
       IN  /\ apiCache' = StoreResult(apiCache, callers[c].url, data, now)
           /\ callers' = [callers EXCEPT ![c].st = "returned", ![c].ret = data]
    /\ UNCHANGED <<now, world, ticks, runs>>
    /\ ClientFrame

\* a catch that also stores what it returns
ClientRejectStoring(c) ==
    /\ callers[c].st = "fetching"
    /\ callers' = [callers EXCEPT ![c].st = "returned", ![c].ret = FailureResult,
                                  ![c].threw = TRUE]
    /\ apiCache' = StoreResult(apiCache, callers[c].url, FailureResult, now)
    /\ UNCHANGED <<now, world, ticks, runs>>
    /\ ClientFrame

\* lines 45-48
ClientReject(c) ==
    /\ callers[c].st = "fetching"
    /\ callers' = [callers EXCEPT ![c].st = "returned", ![c].ret = FailureResult,
                                  ![c].threw = TRUE]
    /\ UNCHANGED <<apiCache, now, world, ticks, runs>>
    /\ ClientFrame

ClientTick(d) ==
    /\ ticks < MaxTicks
    /\ now' = now + d /\ ticks' = ticks + 1
    /\ UNCHANGED <<apiCache, world, callers, runs>>
    /\ ClientFrame

\* the upstream dataset is replaced
ChangeWorld ==
    /\ world' \in Worlds \ {world}
    /\ UNCHANGED <<apiCache, now, ticks, callers, runs>>
    /\ ClientFrame

NextClient ==
    \/ \E c \in 1..NumCallers : \E url \in ClientUrls : ClientCall(c, url)
    \/ \E c \in 1..NumCallers : ClientResolve(c)
    \/ \E c \in 1..NumCallers : ClientReject(c)
    \/ \E d \in TickSteps : ClientTick(d)
    \/ ChangeWorld

SpecClient == InitClient /\ [][NextClient]_vars

----------------------------------------------------------------------------
(* The lexer and the parser (parseQuery.ts). A string is the sequence of   *)
(* its characters; positions count from 0 as in the code. A call that      *)
(* throws returns a record with ok = FALSE and the Error's message, a      *)
(* sequence of the parts of the template literal.                          *)

Letters == {"a", "e", "h", "i", "l", "m", "n", "o", "p", "r", "s", "t", "x", "y",
            "A", "N", "D", "O", "R"}

\* /\s/
Whitespace == {" "}

\* the characters of readIdentifier's class (line 102) among those used here
IdentifierChars == Letters \cup {"5", "_", "$", "<", ">", "=", "/", "!", "%"}

Null == "null"

\* input[position], null past the end
CharAt(str, position) ==
    IF position < Len(str) THEN str[position + 1] ELSE Null

\* input.slice(from, to)
Slice(str, from, to) ==
    SubSeq(str, from + 1, IF to < Len(str) THEN to ELSE Len(str))

\* skipWhitespace (lines 93-97): the position it stops at
RECURSIVE SkipWhitespace(_, _)
SkipWhitespace(str, position) ==
    IF CharAt(str, position) \in Whitespace
    THEN SkipWhitespace(str, position + 1)
    ELSE position

\* readIdentifier (lines 99-106): the position it stops at
RECURSIVE IdentifierEnd(_, _)
IdentifierEnd(str, position) ==
    IF CharAt(str, position) \in IdentifierChars
    THEN IdentifierEnd(str, position + 1)
    ELSE position

CreateToken(type, value, position) ==
    [type |-> type, value |-> value, position |-> position]

\* `Unexpected character: ${currentChar}`
UnexpectedCharacter(currentChar) == <<"Unexpected character: ", currentChar>>

\* a lexer that starts over from the beginning once it has returned EOF
LexedRewinding(token, position) ==
    [ok |-> TRUE, token |-> token,
     position |-> IF token.type = "EOF" THEN 0 ELSE position]

\* a call that returned token, leaving the lexer at position
Lexed(token, position) == [ok |-> TRUE, token |-> token, position |-> position]

\* a call that threw
Failure(message, lexical, position) ==
    [ok |-> FALSE, error |-> message, lexical |-> lexical, position |-> position]

\* getNextToken (lines 108-179) called with the lexer at position
GetNextToken(str, position) ==
    LET p  == SkipWhitespace(str, position)
        ch == CharAt(str, p)
        e  == IdentifierEnd(str, p)
        Identifier(type) == Lexed(CreateToken(type, Slice(str, p, e), p), e)
    IN  IF ch = Null THEN Lexed(CreateToken("EOF", <<>>, p), p)
        ELSE IF ch = "$" THEN Identifier("VARIABLE")
        ELSE IF ch = "r" /\ p + 1 < Len(str) /\ CharAt(str, p + 1) = "_"
          THEN Identifier("RELATION")
        ELSE IF ch = "!" /\ p + 2 < Len(str)
                  /\ CharAt(str, p + 1) = "r" /\ CharAt(str, p + 2) = "_"
          THEN Identifier("RELATION")
        ELSE IF ch \in {"<", ">", "="} THEN Identifier("WEIGHT_PARAM")
        ELSE IF ch = "/" THEN Identifier("GREP")
        ELSE IF ch = "A" /\ Slice(str, p, p + 3) = <<"A", "N", "D">>
          THEN Lexed(CreateToken("AND", <<"A", "N", "D">>, p), p + 3)
        ELSE IF ch = "O" /\ Slice(str, p, p + 2) = <<"O", "R">>
          THEN Lexed(CreateToken("OR", <<"O", "R">>, p), p + 2)
        ELSE IF ch \in Letters THEN Identifier("ENTITY")
        ELSE Failure(UnexpectedCharacter(ch), TRUE, p)

\* `Unexpected token: ${currentToken.value}. Expected type: ${tokenType}`
UnexpectedToken(value, tokenType) ==
    <<"Unexpected token: ", value, ". Expected type: ", tokenType>>

\* eat (lines 188-194): cur is the lexer call that produced currentToken
Eat(str, cur, tokenType) ==
    IF cur.token.type = tokenType
    THEN GetNextToken(str, cur.position)
    ELSE Failure(UnexpectedToken(cur.token.value, tokenType), FALSE, cur.token.position)

ExpectedSubject == <<"Expected variable or entity as subject">>
ExpectedRelation == <<"Expected relation">>
ExpectedObject == <<"Expected variable or entity as object">>
UnexpectedAfterExpression == <<"Unexpected token after parsing expression">>

\* an optional field left undefined
Undefined == [type |-> "undefined"]

CreateSimpleQuery(subject, relation, object, weightParam, grep, negated) ==
    [type |-> "SimpleQuery", subject |-> subject, relation |-> relation,
     object |-> object, weightParam |-> weightParam, grep |-> grep,
     negated |-> negated]

CreateCompoundQuery(left, operator, right) ==
    [type |-> "CompoundQuery", left |-> left, operator |-> operator, right |-> right]

\* value.startsWith("!")
StartsWithBang(value) == Len(value) > 0 /\ value[1] = "!"

\* const v = value; then the statements of Body, which read v
With(value, Body(_)) == CHOOSE r \in {Body(v) : v \in {value}} : TRUE

\* a trailer that takes the GREP token before the WEIGHT_PARAM token
TrailerGrepFirst(str, cur) ==
    With(IF cur.token.type = "GREP" THEN Eat(str, cur, "GREP") ELSE cur, LAMBDA c1 :
        IF ~c1.ok THEN c1
        ELSE With(IF c1.token.type = "WEIGHT_PARAM"
                  THEN Eat(str, c1, "WEIGHT_PARAM") ELSE c1, LAMBDA c2 :
            IF ~c2.ok THEN c2
            ELSE [ok |-> TRUE,
                  weightParam |-> IF c1.token.type = "WEIGHT_PARAM"
                                  THEN c1.token ELSE Undefined,
                  grep |-> IF cur.token.type = "GREP" THEN cur.token ELSE Undefined,
                  cur |-> c2]))

\* lines 235-245: the optional WEIGHT_PARAM, then the optional GREP
Trailer(str, cur) ==
    With(IF cur.token.type = "WEIGHT_PARAM"
         THEN Eat(str, cur, "WEIGHT_PARAM") ELSE cur, LAMBDA c1 :
        IF ~c1.ok THEN c1
        ELSE With(IF c1.token.type = "GREP" THEN Eat(str, c1, "GREP") ELSE c1, LAMBDA c2 :
            IF ~c2.ok THEN c2
            ELSE [ok |-> TRUE,
                  weightParam |-> IF cur.token.type = "WEIGHT_PARAM"
                                  THEN cur.token ELSE Undefined,
                  grep |-> IF c1.token.type = "GREP" THEN c1.token ELSE Undefined,
                  cur |-> c2]))

\* simpleQuery (lines 197-248) with currentToken produced by cur; c1, c2 and
\* c3 are the lexer calls after the subject, the relation and the object
SimpleQuery(str, cur) ==
    IF ~cur.ok THEN cur
    ELSE IF cur.token.type \notin {"VARIABLE", "ENTITY"}
      THEN Failure(ExpectedSubject, FALSE, cur.token.position)
    ELSE With(Eat(str, cur, cur.token.type), LAMBDA c1 :
        IF ~c1.ok THEN c1
        ELSE IF c1.token.type # "RELATION"
          THEN Failure(ExpectedRelation, FALSE, c1.token.position)
        ELSE With(Eat(str, c1, "RELATION"), LAMBDA c2 :
            IF ~c2.ok THEN c2
            ELSE IF c2.token.type \notin {"VARIABLE", "ENTITY"}
              THEN Failure(ExpectedObject, FALSE, c2.token.position)
            ELSE With(Eat(str, c2, c2.token.type), LAMBDA c3 :
                IF ~c3.ok THEN c3
                ELSE With(Trailer(str, c3), LAMBDA t :
                    IF ~t.ok THEN t
                    ELSE [ok |-> TRUE,
                          node |-> CreateSimpleQuery(cur.token, c1.token, c2.token,
                                      t.weightParam, t.grep,
                                      StartsWithBang(c1.token.value)),
                          cur |-> t.cur]))))

\* a loop that parses what follows an operator as a whole expression
RECURSIVE ExpressionLoopRightLeaning(_, _, _)
ExpressionLoopRightLeaning(str, node, cur) ==
    IF cur.token.type \in {"AND", "OR"}
    THEN With(Eat(str, cur, cur.token.type), LAMBDA c1 :
         With(SimpleQuery(str, c1), LAMBDA right :
            IF ~right.ok THEN right
            ELSE With(ExpressionLoopRightLeaning(str, right.node, right.cur), LAMBDA rest :
                IF ~rest.ok THEN rest
                ELSE [ok |-> TRUE,
                      node |-> CreateCompoundQuery(node, cur.token.type, rest.node),
                      cur |-> rest.cur])))
    ELSE [ok |-> TRUE, node |-> node, cur |-> cur]

\* the while loop of expression (lines 254-263)
RECURSIVE ExpressionLoop(_, _, _)
ExpressionLoop(str, node, cur) ==
    IF cur.token.type \in {"AND", "OR"}
    THEN With(Eat(str, cur, cur.token.type), LAMBDA c1 :
         With(SimpleQuery(str, c1), LAMBDA right :
            IF ~right.ok THEN right
            ELSE With(CreateCompoundQuery(node, cur.token.type, right.node), LAMBDA n :
                    ExpressionLoop(str, n, right.cur))))
    ELSE [ok |-> TRUE, node |-> node, cur |-> cur]

\* expression (lines 251-266)
Expression(str, cur) ==
    With(SimpleQuery(str, cur), LAMBDA first :
        IF ~first.ok THEN first ELSE ExpressionLoop(str, first.node, first.cur))

\* a parse that returns the expression whatever follows it
ParseIgnoringRest(str) ==
    With(GetNextToken(str, 0), LAMBDA c0 :
    With(Expression(str, c0), LAMBDA e :
        IF ~e.ok THEN e ELSE [ok |-> TRUE, node |-> e.node]))

\* createParser and parse (lines 185-186, 268-277), as parseQuery calls them
\* on the query string (lines 293-297)
Parse(str) ==
    With(GetNextToken(str, 0), LAMBDA c0 :
    With(Expression(str, c0), LAMBDA e :
        IF ~e.ok THEN e
        ELSE IF e.cur.token.type # "EOF"
          THEN Failure(UnexpectedAfterExpression, FALSE, e.cur.token.position)
        ELSE [ok |-> TRUE, node |-> e.node]))

\* astToString (lines 283-289)
RECURSIVE AstToString(_)
AstToString(node) ==
    IF node.type = "SimpleQuery"
    THEN node.subject.value \o <<" ">> \o node.relation.value \o <<" ">>
            \o node.object.value
    ELSE <<"(">> \o AstToString(node.left) \o <<" ">>
            \o (IF node.operator = "AND" THEN <<"A", "N", "D">> ELSE <<"O", "R">>)
            \o <<" ">> \o AstToString(node.right) \o <<")">>

\* the query strings considered: words separated by one space
MaxClauses == 3

MaxChars == 2

RECURSIVE JoinWords(_)
JoinWords(words) ==
    IF words = <<>> THEN <<>>
    ELSE IF Len(words) = 1 THEN words[1]
    ELSE words[1] \o <<" ">> \o JoinWords(Tail(words))

VarX == <<"$", "x">>
EntE == <<"e">>
RelI == <<"r", "_", "i">>
NotRelI == <<"!", "r", "_", "i">>
WeightLt5 == <<"<", "5">>
GrepA == <<"/", "a", "/">>
WordAnd == <<"A", "N", "D">>
WordOr == <<"O", "R">>

\* clauses, well formed or not, as sequences of words
Fragments ==
    { << VarX, RelI, EntE >>,
      << EntE, NotRelI, VarX, WeightLt5 >>,
      << VarX, NotRelI, VarX, GrepA >>,
      << EntE, RelI, VarX, WeightLt5, GrepA >>,
      << VarX, RelI, EntE, GrepA, WeightLt5 >>,
      << VarX, RelI, EntE, WeightLt5, WeightLt5 >>,
      << VarX, EntE >>,
      << VarX, RelI, <<"5">> >>,
      << >> }

RECURSIVE WordLists(_)
WordLists(n) ==
    IF n = 1 THEN Fragments
    ELSE LET shorter == WordLists(n - 1)
         IN  shorter \cup
             {w \o <<op>> \o f : w \in shorter, op \in {WordAnd, WordOr}, f \in Fragments}

\* the characters the short strings are drawn from: identifier characters,
\* the blank, and one character no token starts with
StringChars ==
    {"a", "e", "i", "r", "x", "A", "N", "D", "O", "R", "5", "_", "$", "<", ">",
     "=", "/", "!", "%", " ", "\\"}

RECURSIVE Strings(_)
Strings(n) ==
    IF n = 0 THEN {<<>>}
    ELSE LET shorter == Strings(n - 1)
         IN  shorter \cup {Append(t, ch) : t \in shorter, ch \in StringChars}

QueryStrings == {JoinWords(w) : w \in WordLists(MaxClauses)} \cup Strings(MaxChars)

NotParsed == [done |-> FALSE]

\* the evaluator's and the other checks' variables at rest
ParseFrame ==
    UNCHANGED <<apiCache, now, world, query, pc, idx, acc, tasks, relMap, scan,
                combined, resp, log, failed, runs, ticks, wtoken, wband, callers>>

InitParse ==
    /\ apiCache = <<>> /\ now = 0 /\ ticks = 0
    /\ world = CHOOSE w \in Worlds : ~w.echo
    /\ EvalIdle
    /\ wtoken = NoToken /\ wband = NoBand /\ callers = <<>>
    /\ input \in QueryStrings /\ parsed = NotParsed
    /\ lexer = NoLexer /\ codec = NoCodec

\* GET up to the end of parseQuery (route.ts:5-11); a throw goes to the catch
\* of lines 20-27, which answers with the message and no ast
ParseQuery ==
    /\ ~parsed.done
    /\ parsed' = With(Parse(input), LAMBDA p :
                    IF p.ok
                    THEN [done |-> TRUE, ok |-> TRUE, node |-> p.node,
                          ast |-> AstToString(p.node)]
                    ELSE [done |-> TRUE, ok |-> FALSE, error |-> p.error,
                          lexical |-> p.lexical, position |-> p.position])
    /\ UNCHANGED <<input, lexer, codec>>
    /\ ParseFrame

NextParse == ParseQuery

SpecParse == InitParse /\ [][NextParse]_vars

----------------------------------------------------------------------------
(* The lexer on its own: getNextToken called again and again on one query  *)
(* string, also after it has returned EOF.                                 *)

\* the number of calls made after the first EOF
MaxCallsAfterEnd == 2

LexStrings == Strings(MaxChars) \cup {JoinWords(w) : w \in WordLists(2)}

InitLex ==
    /\ apiCache = <<>> /\ now = 0 /\ ticks = 0
    /\ world = CHOOSE w \in Worlds : ~w.echo
    /\ EvalIdle
    /\ wtoken = NoToken /\ wband = NoBand /\ callers = <<>>
    /\ input \in LexStrings /\ parsed = NotParsed
    /\ lexer = [on |-> TRUE, position |-> 0, returned |-> <<>>, threw |-> FALSE]
    /\ codec = NoCodec

EndsReturned == Cardinality({i \in 1..Len(lexer.returned) : lexer.returned[i].type = "EOF"})

\* one call of lexer.getNextToken() (lines 108-179)
CallGetNextToken ==
    /\ lexer.on /\ ~lexer.threw
    /\ EndsReturned <= MaxCallsAfterEnd
    /\ lexer' = With(GetNextToken(input, lexer.position), LAMBDA t :
                    IF t.ok
                    THEN [lexer EXCEPT !.position = t.position,
                                       !.returned = Append(@, t.token)]
                    ELSE [lexer EXCEPT !.threw = TRUE])
    /\ UNCHANGED <<input, parsed, codec>>
    /\ ParseFrame

NextLex == CallGetNextToken

SpecLex == InitLex /\ [][NextLex]_vars

----------------------------------------------------------------------------
(* A whole request (route.ts:5-27): the query string is parsed, the tree   *)
(* is evaluated against the shared cache, and GET answers with the JSON    *)
(* of the try branch or of the catch branch. Requests follow one another   *)
(* on the same cache.                                                      *)

\* the characters of a token value as one string
RECURSIVE Text(_)
Text(chars) == IF chars = <<>> THEN "" ELSE chars[1] \o Text(Tail(chars))

\* value.split(sep), each part as one string
RECURSIVE SplitOn(_, _)
SplitOn(chars, sep) ==
    IF \A i \in 1..Len(chars) : chars[i] # sep THEN << Text(chars) >>
    ELSE LET i == CHOOSE k \in 1..Len(chars) :
                      chars[k] = sep /\ \A j \in 1..(k - 1) : chars[j] # sep
         IN  << Text(SubSeq(chars, 1, i - 1)) >>
                 \o SplitOn(SubSeq(chars, i + 1, Len(chars)), sep)

\* a relation token's value with every "!" as a piece of its own
RECURSIVE PiecesOf(_)
PiecesOf(chars) ==
    IF chars = <<>> THEN <<>>
    ELSE IF chars[1] = "!" THEN << "!" >> \o PiecesOf(Tail(chars))
    ELSE LET n == IF \E k \in 1..Len(chars) : chars[k] = "!"
                  THEN (CHOOSE k \in 1..Len(chars) :
                            chars[k] = "!" /\ \A j \in 1..(k - 1) : chars[j] # "!") - 1
                  ELSE Len(chars)
         IN  << Text(SubSeq(chars, 1, n)) >> \o PiecesOf(SubSeq(chars, n + 1, Len(chars)))

\* a subject or object token as evaluateSimpleQuery reads it: a variable's
\* name by its "_" segments, an entity's name whole
TermOf(token) ==
    [type |-> token.type,
     value |-> IF token.type = "VARIABLE" THEN SplitOn(token.value, "_")
               ELSE << Text(token.value) >>]

\* the SimpleQuery node handed to evaluateSimpleQuery
ClauseFrom(node) ==
    [subject |-> TermOf(node.subject), relation |-> Rel(PiecesOf(node.relation.value)),
     object |-> TermOf(node.object),
     weightParam |-> IF node.weightParam = Undefined THEN NoToken
                     ELSE node.weightParam.value,
     grep |-> NoGrep, negated |-> node.negated]

\* evaluateQuery's walk of the tree: the left subtree first, then the right
\* clause with the left's bindings
RECURSIVE ChainFrom(_)
ChainFrom(node) ==
    IF node.type = "SimpleQuery" THEN Chain(<< ClauseFrom(node) >>, <<>>)
    ELSE With(ChainFrom(node.left), LAMBDA l :
            Chain(Append(l.clauses, ClauseFrom(node.right)),
                  Append(l.ops, node.operator)))

WordLion == <<"l", "i", "o", "n">>
WordAnimal == <<"a", "n", "i", "m", "a", "l">>
WordMane == <<"m", "a", "n", "e">>
WordIsa == <<"r", "_", "i", "s", "a">>
WordHasPart == <<"r", "_", "h", "a", "s", "_", "p", "a", "r", "t">>
WordNoRelation == <<"r", "_", "n", "o">>

RequestStrings ==
    { JoinWords(<< VarX, WordIsa, WordAnimal >>),
      JoinWords(<< WordLion, WordHasPart, <<"$", "y">> >>),
      JoinWords(<< WordLion, WordIsa, WordAnimal >>),
      JoinWords(<< VarX, WordNoRelation, WordAnimal >>),
      JoinWords(<< VarX, WordIsa >>),
      JoinWords(<< VarX, WordIsa, WordAnimal, <<"\\">> >>),
      JoinWords(<< VarX, WordIsa, WordAnimal, WordAnd, VarX, WordNoRelation, WordMane >>),
      JoinWords(<< VarX, WordIsa, WordAnimal, WordAnd, WordLion, WordIsa, WordAnimal >>),
      JoinWords(<< VarX, WordIsa, WordAnimal, WordAnd, VarX, WordHasPart >>),
      JoinWords(<< VarX, WordIsa, WordAnimal, WordAnd,
                   VarX, WordHasPart, <<"$", "y">> >>) }

InitRequest ==
    /\ apiCache = <<>> /\ now = 0 /\ ticks = 0
    /\ world \in Worlds
    /\ EvalIdle
    /\ wtoken = NoToken /\ wband = NoBand /\ callers = <<>>
    /\ input \in RequestStrings /\ parsed = NotParsed
    /\ lexer = NoLexer /\ codec = NoCodec

\* route.ts:5-11, and the catch of lines 20-27 when parseQuery throws
ParseRequest ==
    /\ pc = "idle" /\ ~parsed.done /\ ~resp.sent
    /\ parsed' = With(Parse(input), LAMBDA p :
                    IF p.ok
                    THEN [done |-> TRUE, ok |-> TRUE, node |-> p.node,
                          ast |-> AstToString(p.node)]
                    ELSE [done |-> TRUE, ok |-> FALSE, error |-> p.error,
                          lexical |-> p.lexical, position |-> p.position])
    /\ resp' = IF parsed'.ok THEN resp ELSE ErrorResponse(parsed'.error)
    /\ UNCHANGED <<apiCache, now, world, query, pc, idx, acc, tasks, relMap, scan,
                   combined, log, failed, runs, ticks, wtoken, wband, callers,
                   input, lexer, codec>>

\* route.ts:12: executeQuery(parsedQuery)
ExecuteParsed ==
    /\ pc = "idle" /\ parsed.done /\ parsed.ok /\ ~resp.sent
    /\ query' = ChainFrom(parsed.node) /\ idx' = 1 /\ pc' = "clause"
    /\ UNCHANGED <<apiCache, now, world, acc, tasks, relMap, scan, combined, resp,
                   log, failed, runs, ticks>>
    /\ OtherChecksIdle

\* the next GET, with its own locals, on the cache the earlier ones left
NewRequest(str) ==
    /\ pc = "idle" /\ resp.sent /\ runs < MaxRuns
    /\ input' = str /\ parsed' = NotParsed /\ runs' = runs + 1
    /\ query' = NoQuery /\ idx' = 0 /\ acc' = EmptyQueryResult /\ tasks' = <<>>
    /\ relMap' = <<>> /\ scan' = NoScan /\ combined' = NoCombined
    /\ resp' = NoResponse /\ log' = <<>> /\ failed' = 0
    /\ UNCHANGED <<apiCache, now, world, pc, ticks, wtoken, wband, callers, lexer,
                   codec>>

\* time passes between two requests
RequestTick(d) ==
    /\ pc = "idle" /\ resp.sent /\ ticks < MaxTicks
    /\ now' = now + d /\ ticks' = ticks + 1
    /\ UNCHANGED <<apiCache, world, query, pc, idx, acc, tasks, relMap, scan,
                   combined, resp, log, failed, runs>>
    /\ OtherChecksIdle

NextRequest ==
    \/ ParseRequest
    \/ ExecuteParsed
    \/ \E str \in RequestStrings : NewRequest(str)
    \/ \E d \in TickSteps : RequestTick(d)
    \/ ThrowUnknownRelation
    \/ ThrowNotImplemented
    \/ IssueLookups
    \/ \E i \in 1..Len(tasks) : FetchOk(i)
    \/ \E i \in 1..Len(tasks) : FetchFail(i)
    \/ FinishClause

SpecRequest == InitRequest /\ [][NextRequest]_vars

----------------------------------------------------------------------------
(* The pair encoding on its own: a binding `${var1}_${var2}_pairs` with    *)
(* values `${a},${b}` is written as processVariableToVariableRelation      *)
(* writes it (evaluateQuery.ts:90-115) and read back as generateTuples     *)
(* (lines 422-443) and the projection (lines 640-651) read it.             *)

\* pairs in one binding
MaxPairs == 2

\* variable names by their "_" segments: $x, $y, and $a_b
CodecVariables == { <<"$x">>, <<"$y">>, <<"$a", "b">> }

\* values by their "," parts: lion, mane, and a value with a comma in it
PairValues == { Lion, Mane, <<"a", "b">> }

PairTuples == UNION {[1..n -> PairValues \X PairValues] : n \in 0..MaxPairs}

InitPairs ==
    /\ apiCache = <<>> /\ now = 0 /\ ticks = 0
    /\ world = CHOOSE w \in Worlds : ~w.echo
    /\ EvalIdle
    /\ wtoken = NoToken /\ wband = NoBand /\ callers = <<>>
    /\ input = <<>> /\ parsed = NotParsed /\ lexer = NoLexer
    /\ \E l \in CodecVariables, r \in CodecVariables, t \in PairTuples :
          codec = [on |-> TRUE, stage |-> "tuples", var1 |-> l, var2 |-> r, tuples |-> t]

CodecFrame ==
    UNCHANGED <<apiCache, now, world, query, pc, idx, acc, tasks, relMap, scan,
                combined, resp, log, failed, runs, ticks, wtoken, wband, callers,
                input, parsed, lexer>>

\* lines 90 and 101-108: the name of the binding and its values
EncodePairs ==
    /\ codec.on /\ codec.stage = "tuples"
    /\ codec' = [on |-> TRUE, stage |-> "binding",
                 var1 |-> codec.var1, var2 |-> codec.var2, tuples |-> codec.tuples,
                 binding |-> [name |-> PairName(codec.var1, codec.var2),
                              value |-> [i \in 1..Len(codec.tuples) |->
                                            codec.tuples[i][1] \o codec.tuples[i][2]]]]
    /\ CodecFrame

\* lines 424-426 and 440 (generateTuples), lines 642-651 (projection)
DecodePairs ==
    /\ codec.on /\ codec.stage = "binding"
    /\ codec' = [on |-> TRUE, stage |-> "read",
                 var1 |-> codec.var1, var2 |-> codec.var2, tuples |-> codec.tuples,
                 binding |-> codec.binding,
                 key |-> PairKey(codec.binding.name),
                 pairs |-> [i \in 1..Len(codec.binding.value) |->
                              << PartAt(codec.binding.value[i], 1),
                                 PartAt(codec.binding.value[i], 2) >>],
                 projected |-> << SegAt(BeforePairs(codec.binding.name), 1),
                                  SegAt(BeforePairs(codec.binding.name), 2) >>,
                 var1Values |-> PairSide(codec.binding.value, 1),
                 var2Values |-> PairSide(codec.binding.value, 2)]
    /\ CodecFrame

NextPairs == EncodePairs \/ DecodePairs

SpecPairs == InitPairs /\ [][NextPairs]_vars

\* the JSON GET answers with: lines 13-18 on success, lines 21-26 in the catch
ResponseJson ==
    IF resp.error = NoError
    THEN [ast |-> parsed.ast, variables |-> resp.variables, result |-> resp.result,
          query |-> input]
    ELSE [error |-> resp.error, variables |-> resp.variables, result |-> resp.result,
          query |-> input]

----------------------------------------------------------------------------
(* Properties of the combinator and of tuple reconstruction.               *)

NamesOf(variables) == {v.name : v \in Range(variables)}

ValueSet(variables, name) == Range(variables[FindIndex(variables, name)].value)

\* the variables named by the pair bindings, read off the binding names
PairVariables(variables) ==
    UNION {{b.name[1], b.name[2]} : b \in Range(PairsOnly(variables))}

\* a row as an assignment: variable name -> value
RowsAsAssignments(chain, tuples) ==
    {[v \in Range(chain) |-> t[CHOOSE i \in 1..Len(chain) : chain[i] = v]] :
        t \in Range(tuples)}

\* every value a pair binding or a plain binding mentions
MentionedValues(variables) ==
    UNION {IF IsPairs(b.name)
           THEN UNION {{PartAt(p, 1), PartAt(p, 2)} : p \in Range(b.value)}
           ELSE Range(b.value) : b \in Range(variables)}

\* the assignments of the pair variables that satisfy every pair binding and
\* take each plainly bound variable's value from its plain value set
SatisfyingAssignments(variables) ==
    {f \in [PairVariables(variables) -> MentionedValues(variables)] :
        /\ \A b \in Range(PairsOnly(variables)) :
              \E p \in Range(b.value) :
                  PartAt(p, 1) = f[b.name[1]] /\ PartAt(p, 2) = f[b.name[2]]
        /\ \A b \in Range(PlainOnly(variables)) :
              (Len(b.name) = 1 /\ b.name[1] \in PairVariables(variables))
                  => f[b.name[1]] \in Range(b.value)}

ChainOrders(S) ==
    {p \in [1..Cardinality(S) -> S] : \A i, j \in 1..Cardinality(S) : p[i] = p[j] => i = j}

\* C1: at an AND node every variable bound on both sides gets the intersection
\* of its two value sets, and when a side has no bindings or some shared
\* variable's intersection is empty, the node's rows and variables are both empty.
C1_AndIntersectsOrIsEmpty ==
    (combined.on /\ combined.operator = "AND" /\ failed = 0) =>
        LET l == combined.left.variables
            r == combined.right.variables
            shared == NamesOf(l) \cap NamesOf(r)
        IN  IF l = <<>> \/ r = <<>>
               \/ \E n \in shared : ValueSet(l, n) \cap ValueSet(r, n) = {}
            THEN acc.result = <<>> /\ acc.variables = <<>>
            ELSE \A n \in shared :
                    /\ n \in NamesOf(combined.variables)
                    /\ ValueSet(combined.variables, n) = ValueSet(l, n) \cap ValueSet(r, n)

\* C2: the rows of tuple reconstruction are exactly the assignments of the
\* pair variables that satisfy all pair bindings (both x_y_pairs and y_x_pairs
\* when both exist) and the plain value sets.
C2_RowsAreTheSatisfyingAssignments ==
    (combined.on /\ ~combined.early /\ failed = 0) =>
        RowsAsAssignments(combined.chain, combined.tuples)
            = SatisfyingAssignments(combined.variables)

\* C3: the set of rows is the same whichever permutation of the variables is
\* used as the chain of the backtracking join.
C3_RowsIndependentOfChain ==
    (combined.on /\ ~combined.early /\ failed = 0) =>
        \A p \in ChainOrders(Range(combined.chain)) :
            RowsAsAssignments(p, BuildTuples(combined.variables, p, <<>>))
                = RowsAsAssignments(combined.chain, combined.tuples)

\* C4: after a compound node, every value reported for a plain variable that
\* appears in a pair binding occurs as that variable's value in a returned row,
\* and the reported set is the projection of a pair binding onto the variable.
C4_ReportedBindingsOccurInRows ==
    (combined.on /\ ~combined.early /\ failed = 0) =>
        \A b \in Range(PlainOnly(acc.variables)) :
            (Len(b.name) = 1 /\ b.name[1] \in PairVariables(combined.variables)) =>
                /\ \A val \in Range(b.value) :
                      \E row \in RowsAsAssignments(combined.chain, combined.tuples) :
                          row[b.name[1]] = val
                /\ \E pb \in Range(PairsOnly(combined.variables)) :
                      \E side \in 1..2 :
                          /\ pb.name[side] = b.name[1]
                          /\ Range(b.value) = {PartAt(pr, side) : pr \in Range(pb.value)}

----------------------------------------------------------------------------
(* Properties of the weight band and of the graph client.                  *)

DefaultMin == <<"3", "0">>
DefaultMax == <<"9", "9", "9", "9", "9", "9">>

\* the digits N of a token made of the given prefix and then digits only
HasForm(token, prefix) ==
    /\ Len(token) > Len(prefix)
    /\ SubSeq(token, 1, Len(prefix)) = prefix
    /\ AllDigits(SubSeq(token, Len(prefix) + 1, Len(token)))

DigitsAfter(token, prefix) == SubSeq(token, Len(prefix) + 1, Len(token))

\* C5: no token gives the band 30..999999, ">=N" gives N..999999, "<=N" gives
\* 30..N and "=N" gives N..N, N being the digits of the token.
C5_BandFollowsToken ==
    wband.parsed =>
        /\ wtoken = NoToken => (wband.min = DefaultMin /\ wband.max = DefaultMax)
        /\ HasForm(wtoken, <<">", "=">>) =>
              (wband.min = DigitsAfter(wtoken, <<">", "=">>) /\ wband.max = DefaultMax)
        /\ HasForm(wtoken, <<"<", "=">>) =>
              (wband.min = DefaultMin /\ wband.max = DigitsAfter(wtoken, <<"<", "=">>))
        /\ HasForm(wtoken, <<"=">>) =>
              (wband.min = DigitsAfter(wtoken, <<"=">>)
                 /\ wband.max = DigitsAfter(wtoken, <<"=">>))

FiveMinutes == 5 * 60 * 1000

\* C6: a lookup that finds an entry stored at time t, and starts before
\* t + 5 minutes, returns the stored response without an outbound request; one
\* that starts at or after t + 5 minutes removes the entry and issues a request.
C6_CacheServesForFiveMinutes ==
    \A c \in DOMAIN callers :
        (callers[c].st # "idle" /\ callers[c].had) =>
            IF callers[c].at < callers[c].entry.timestamp + FiveMinutes
            THEN /\ callers[c].hit /\ ~callers[c].issued
                 /\ callers[c].st = "returned"
                 /\ callers[c].ret = callers[c].entry.result
            ELSE /\ ~callers[c].hit /\ callers[c].issued /\ callers[c].gone

\* a lookup served from an entry one millisecond before it expires while the
\* upstream has moved on, and another that found the entry expired
C6_Witness ==
    /\ \E c \in DOMAIN callers :
          /\ callers[c].st = "returned" /\ callers[c].had /\ callers[c].hit
          /\ callers[c].at = callers[c].entry.timestamp + FiveMinutes - 1
          /\ callers[c].ret # Upstream(world, callers[c].url)
    /\ \E c \in DOMAIN callers :
          /\ callers[c].st = "fetching" /\ callers[c].had /\ callers[c].gone
          /\ callers[c].at = callers[c].entry.timestamp + FiveMinutes

----------------------------------------------------------------------------
(* Properties of one evaluation's lookups.                                 *)

\* the same evaluation with every lookup made alone, one after the other,
\* each answered by the upstream
RECURSIVE SerialMap(_, _, _, _, _)
SerialMap(w, entries, clause, existing, targets) ==
    IF targets = <<>> THEN entries
    ELSE SerialMap(w,
            MapSet(entries, Head(targets),
                   LookupNames(clause, existing,
                               Upstream(w, ClauseUrl(clause, existing, Head(targets))))),
            clause, existing, Tail(targets))

RECURSIVE SerialScan(_, _, _, _, _, _)
SerialScan(w, clause, nodes, i, processed, pairs) ==
    IF i > Len(nodes) THEN pairs
    ELSE IF Includes(processed, nodes[i].name)
      THEN SerialScan(w, clause, nodes, i + 1, processed, pairs)
    ELSE LET url == RelUrl("from", nodes[i].name, RelationId(clause.relation.value),
                           ClauseBand(clause))
         IN  SerialScan(w, clause, nodes, i + 1, Append(processed, nodes[i].name),
                        pairs \o ScanPairs(nodes, nodes[i].name, Upstream(w, url),
                                           RelationId(clause.relation.value),
                                           clause.grep))

SerialClause(w, clause, existing) ==
    IF ClauseMode(clause, existing) = "scan"
    THEN SimpleVariables(clause, existing, <<>>,
            SerialScan(w, clause, Upstream(w, NodesUrl).nodes, 1, <<>>, <<>>))
    ELSE SimpleVariables(clause, existing,
            SerialMap(w, <<>>, clause, existing, ClauseTargets(clause, existing)),
            <<>>)

RECURSIVE SerialEval(_, _, _)
SerialEval(w, q, n) ==
    IF n = 1 THEN SimpleResult(<<>>, SerialClause(w, q.clauses[1], <<>>))
    ELSE LET left  == SerialEval(w, q, n - 1)
             right == SimpleResult(left.variables,
                                   SerialClause(w, q.clauses[n], left.variables))
         IN  CompoundResult(q.ops[n - 1], left, right)

\* bindings compared as what they bind: the names in order, each with its
\* set of values; rows as a set
SameBindings(a, b) ==
    /\ [i \in 1..Len(a.variables) |-> a.variables[i].name]
         = [i \in 1..Len(b.variables) |-> b.variables[i].name]
    /\ \A i \in 1..Len(a.variables) :
          i <= Len(b.variables) => Range(a.variables[i].value) = Range(b.variables[i].value)
    /\ Range(a.result) = Range(b.result)

\* two requests for one key went out for the same clause: the second passed
\* the cache check before the first was stored
Overlapped ==
    \E i, j \in 1..Len(log) : i < j /\ log[i] = log[j]

\* C7: when two lookups of one uncached key overlap and neither fails, both
\* callers get the same response, the cache holds that response under the
\* key, and the bindings answered are those of a serial execution.
C7_OverlapIsOnlyADuplicateRequest ==
    /\ \A i, j \in 1..Len(tasks) :
          (/\ i < j /\ tasks[i].url = tasks[j].url
           /\ tasks[i].st = "done" /\ tasks[j].st = "done"
           /\ ~tasks[i].threw /\ ~tasks[j].threw) =>
              /\ tasks[i].ret = tasks[j].ret
              /\ CacheHas(apiCache, tasks[i].url)
              /\ apiCache[tasks[i].url].result = tasks[i].ret
    /\ (resp.sent /\ resp.error = NoError /\ failed = 0 /\ Overlapped) =>
          SameBindings(resp, SerialEval(world, query, Len(query.clauses)))

\* an answer given after two overlapping lookups of one key both completed
C7_Witness ==
    /\ resp.sent /\ resp.error = NoError /\ failed = 0 /\ Overlapped
    /\ resp.variables # <<>>
    /\ \E i, j \in 1..Len(tasks) :
          /\ i < j /\ tasks[i].url = tasks[j].url
          /\ tasks[i].st = "done" /\ tasks[j].st = "done"

\* the relation code of a clause without its negation marker
CodeOf(clause) ==
    IF clause.relation.value[1] = "!" THEN Tail(clause.relation.value)
    ELSE clause.relation.value

CatalogCodes == {Catalog[i].code : i \in 1..Len(Catalog)}

UnknownCode(clause) == CodeOf(clause) \notin CatalogCodes

EntityToEntity(clause) ==
    clause.subject.type = "ENTITY" /\ clause.object.type = "ENTITY"

\* no clause of the query is rejected by evaluateSimpleQuery
Answerable(q) ==
    \A k \in 1..Len(q.clauses) :
        ~UnknownCode(q.clauses[k]) /\ ~EntityToEntity(q.clauses[k])

\* a step of the evaluation in progress other than the end of a clause: a
\* continuation that is ready to run, or a fetch that resolves
LookupStep ==
    \/ ThrowUnknownRelation \/ ThrowNotImplemented \/ IssueLookups \/ BeginScan
    \/ ScanStep
    \/ \E i \in 1..Len(tasks) : FetchOk(i)

\* C8: a lookup whose fetch or decoding failed returns no nodes and no
\* relations; after a failure the evaluation always has a next step until it
\* has answered, and a query that no clause rejects is answered without an
\* error.
C8_FailedLookupDegradesToEmpty ==
    /\ \A i \in 1..Len(tasks) :
          tasks[i].threw =>
              /\ tasks[i].st = "done"
              /\ tasks[i].ret = [nodes |-> <<>>, relations |-> <<>>]
    /\ (failed > 0 /\ pc # "idle") => (FinishReady \/ ENABLED LookupStep)
    /\ (failed > 0 /\ pc = "idle") => resp.sent
    /\ (failed > 0 /\ resp.sent /\ Answerable(query)) => resp.error = NoError

\* a query answered without error, with less than the upstream holds, after
\* one of its lookups failed
C8_Witness ==
    /\ failed > 0 /\ resp.sent /\ resp.error = NoError
    /\ \E i \in 1..Len(tasks) : tasks[i].threw
    /\ ~SameBindings(resp, SerialEval(world, query, Len(query.clauses)))

\* the requests clause c makes when its existing bindings are existing
ExpectedUrls(c, existing) ==
    IF ClauseMode(c, existing) = "scan"
    THEN {NodesUrl} \cup
         {RelUrl("from", n.name, RelationId(c.relation.value), ClauseBand(c)) :
             n \in Range(Upstream(world, NodesUrl).nodes)}
    ELSE {ClauseUrl(c, existing, t) : t \in Range(ClauseTargets(c, existing))}

\* the clause whose result was last combined
LastCombined == IF resp.sent /\ resp.error = NoError THEN idx ELSE idx - 1

\* C9: no lookup of a clause is issued while a lookup of an earlier clause is
\* in flight; the right clause's lookups are those its clause makes with the
\* left result's bindings as existing bindings, and its result carries them;
\* the combination uses the operator between the two and happens with no
\* lookup in flight.
C9_LeftThenRightThenCombine ==
    /\ \A i \in 1..Len(tasks) : tasks[i].st = "fetching" => tasks[i].clause = idx
    /\ \A i, j \in 1..Len(log) : i < j => log[i].clause <= log[j].clause
    /\ \A i \in 1..Len(log) : log[i].clause <= idx
    /\ pc = "clause" => \A i \in 1..Len(tasks) : tasks[i].st = "done"
    /\ (pc \in {"wait", "scan"} /\ idx > 1) =>
          \A i \in 1..Len(log) :
              log[i].clause = idx =>
                  log[i].url \in ExpectedUrls(query.clauses[idx], acc.variables)
    /\ combined.on =>
          /\ combined.operator = query.ops[LastCombined - 1]
          /\ \A i \in 1..Len(combined.left.variables) :
                combined.left.variables[i].name \in NamesOf(combined.right.variables)
          /\ acc = CompoundResult(combined.operator, combined.left, combined.right)
                \/ pc \in {"wait", "scan"}
                \/ (pc = "idle" /\ LastCombined < idx - 1)

\* the right clause's lookups in flight, one per value the left result bound
C9_Witness ==
    /\ pc = "wait" /\ idx = 2
    /\ Len(acc.variables) = 1 /\ Len(acc.variables[1].value) > 1
    /\ ClauseMode(query.clauses[2], acc.variables) = "fan"
    /\ \E i \in 1..Len(log) : log[i].clause = 1
    /\ \E i \in 1..Len(tasks) : tasks[i].clause = 2 /\ tasks[i].st = "fetching"

\* the first clause that evaluateSimpleQuery rejects
FirstRejected(q) ==
    CHOOSE k \in 1..Len(q.clauses) :
        /\ UnknownCode(q.clauses[k]) \/ EntityToEntity(q.clauses[k])
        /\ \A j \in 1..(k - 1) :
              ~UnknownCode(q.clauses[j]) /\ ~EntityToEntity(q.clauses[j])

\* C10: when the first clause rejected has a relation code outside the
\* catalog, no lookup is ever issued for that clause, and the answer is an
\* error naming the code, with empty variables and empty result.
C10_UnknownRelationFails ==
    (query # NoQuery /\ ~Answerable(query)
        /\ UnknownCode(query.clauses[FirstRejected(query)])) =>
        /\ \A i \in 1..Len(log) : log[i].clause # FirstRejected(query)
        /\ \A i \in 1..Len(tasks) : tasks[i].clause # FirstRejected(query)
        /\ resp.sent =>
              /\ resp.error = <<"Relation", CodeOf(query.clauses[FirstRejected(query)]),
                                "not recognized">>
              /\ resp.variables = <<>>
              /\ resp.result = <<>>
              /\ idx = FirstRejected(query)

\* the answer to lion r_unknown animal
C10_Witness ==
    /\ resp.sent /\ resp.error # NoError
    /\ Len(query.clauses) = 1
    /\ EntityToEntity(query.clauses[1]) /\ UnknownCode(query.clauses[1])

----------------------------------------------------------------------------
(* Properties of the clause resolver.                                      *)

\* the clause whose result was last returned to evaluateQuery, its existing
\* bindings and its result
LastFinished == IF resp.sent /\ resp.error = NoError THEN idx ELSE idx - 1

FinishedClause == query.clauses[LastFinished]

FinishedExisting == IF LastFinished = 1 THEN <<>> ELSE combined.left.variables

FinishedResult == IF LastFinished = 1 /\ ~combined.on THEN acc ELSE combined.right

TwoVariables(c) == c.subject.type = "VARIABLE" /\ c.object.type = "VARIABLE"

\* the relation of clause c is found to hold from l to r by the lookup the
\* clause makes for that pair: to/r when only the right variable is bound,
\* from/l otherwise
FoundToHold(c, existing, l, r) ==
    LET id == RelationId(c.relation.value)
    IN  IF ~Bound(existing, c.subject.value) /\ Bound(existing, c.object.value)
        THEN l \in Range(TypeOneNames(Upstream(world, RelUrl("to", r, id, ClauseBand(c)))))
        ELSE r \in Range(RelatedEntities(
                            Upstream(world, RelUrl("from", l, id, ClauseBand(c))),
                            id, c.grep))

PairsBinding(c) == PairName(c.subject.value, c.object.value)

\* C11: a negated clause on two variables emits no pair for which the
\* relation was found to hold, whichever of its variables are bound.
C11_NegatedPairsExcludeHolding ==
    (LastFinished >= 1 /\ failed = 0
        /\ TwoVariables(FinishedClause) /\ FinishedClause.negated) =>
        LET out == FinishedResult.variables
            k   == FindIndex(out, PairsBinding(FinishedClause))
        IN  /\ k > 0
            /\ \A p \in Range(out[k].value) :
                  ~FoundToHold(FinishedClause, FinishedExisting, PartAt(p, 1), PartAt(p, 2))

OneVariable(c) == c.subject.type # c.object.type

TheVariable(c) == IF c.subject.type = "VARIABLE" THEN c.subject.value ELSE c.object.value

\* the lookup of a one-variable clause: to/word for $x r_rel word, from/word
\* for word r_rel $x
OneVariableUrl(c) ==
    IF c.subject.type = "VARIABLE"
    THEN RelUrl("to", c.object.value, RelationId(c.relation.value), ClauseBand(c))
    ELSE RelUrl("from", c.subject.value, RelationId(c.relation.value), ClauseBand(c))

\* the names the lookup of a one-variable clause returns
FetchedNames(c) == Range(TypeOneNames(Upstream(world, OneVariableUrl(c))))

\* C12: a negated one-variable clause on a variable that has a binding
\* rebinds it to its prior values minus the names the lookup returned.
C12_NegatedOneVariableIsDifference ==
    (LastFinished >= 1 /\ failed = 0
        /\ OneVariable(FinishedClause) /\ FinishedClause.negated
        /\ Bound(FinishedExisting, TheVariable(FinishedClause))) =>
        ValueSet(FinishedResult.variables, TheVariable(FinishedClause))
          = ValueSet(FinishedExisting, TheVariable(FinishedClause))
              \ FetchedNames(FinishedClause)

\* a prior value was removed and another one kept, for a clause of the form
\* word !r_rel $y
C12_Witness ==
    /\ LastFinished >= 1 /\ failed = 0
    /\ OneVariable(FinishedClause) /\ FinishedClause.negated
    /\ FinishedClause.object.type = "VARIABLE"
    /\ Bound(FinishedExisting, TheVariable(FinishedClause))
    /\ ValueSet(FinishedResult.variables, TheVariable(FinishedClause)) # {}
    /\ ValueSet(FinishedResult.variables, TheVariable(FinishedClause))
         # ValueSet(FinishedExisting, TheVariable(FinishedClause))

\* the requests sent upstream for clause n
RequestsOf(n) == {i \in 1..Len(log) : log[i].clause = n}

\* C13: a non-negated one-variable clause binds its variable to exactly the
\* names one lookup returned, the lookup being to/word for $x r_rel word and
\* from/word for word r_rel $x; in the accumulated bindings the variable has
\* this binding alone, whatever it was bound to before, and the other
\* bindings are kept.
C13_OneVariableBindsLookupNames ==
    (LastFinished >= 1 /\ failed = 0
        /\ OneVariable(FinishedClause) /\ ~FinishedClause.negated) =>
        LET c   == FinishedClause
            out == FinishedResult.variables
        IN  /\ Cardinality(RequestsOf(LastFinished)) <= 1
            /\ \A i \in RequestsOf(LastFinished) : log[i].url = OneVariableUrl(c)
            /\ CacheHas(apiCache, OneVariableUrl(c))
            /\ Cardinality({k \in 1..Len(out) : out[k].name = TheVariable(c)}) = 1
            /\ ValueSet(out, TheVariable(c)) = FetchedNames(c)
            /\ \A k \in 1..Len(FinishedExisting) :
                  FinishedExisting[k].name # TheVariable(c) =>
                      FinishedExisting[k] \in Range(out)

\* the variable had a prior value that the lookup did not return
C13_Witness ==
    /\ LastFinished >= 1 /\ failed = 0
    /\ OneVariable(FinishedClause) /\ ~FinishedClause.negated
    /\ Bound(FinishedExisting, TheVariable(FinishedClause))
    /\ RequestsOf(LastFinished) # {}
    /\ FetchedNames(FinishedClause) # {}
    /\ ValueSet(FinishedExisting, TheVariable(FinishedClause))
          \ FetchedNames(FinishedClause) # {}

\* the entities returned as related from l by the relation of clause c
RelatedFrom(c, l) ==
    Range(RelatedEntities(
            Upstream(world, RelUrl("from", l, RelationId(c.relation.value), ClauseBand(c))),
            RelationId(c.relation.value), c.grep))

BothBound(c, existing) ==
    /\ TwoVariables(c)
    /\ Bound(existing, c.subject.value) /\ Bound(existing, c.object.value)

\* C14: a non-negated clause on two bound variables returns one binding,
\* named <left>_<right>_pairs, whose values are the pairs (l, r) with l a
\* value of the left variable, r a value of the right variable and r related
\* from l.
C14_BothBoundPairsWithinProduct ==
    (LastFinished >= 1 /\ failed = 0
        /\ BothBound(FinishedClause, FinishedExisting) /\ ~FinishedClause.negated) =>
        LET c   == FinishedClause
            ex  == FinishedExisting
            out == FinishedResult
            X   == ValueSet(ex, c.subject.value)
            Y   == ValueSet(ex, c.object.value)
        IN  /\ Cardinality({k \in 1..Len(out.variables) :
                              out.variables[k].name = PairsBinding(c)}) = 1
            /\ NamesOf(out.variables) = NamesOf(ex) \cup {PairsBinding(c)}
            /\ out.result = out.variables[FindIndex(out.variables, PairsBinding(c))].value
            /\ ValueSet(out.variables, PairsBinding(c))
                 = {pr[1] \o pr[2] :
                      pr \in {qr \in X \X Y : qr[2] \in RelatedFrom(c, qr[1])}}

\* a pair was emitted and a pair of the product was left out
C14_Witness ==
    /\ LastFinished >= 1 /\ failed = 0
    /\ BothBound(FinishedClause, FinishedExisting) /\ ~FinishedClause.negated
    /\ ValueSet(FinishedResult.variables, PairsBinding(FinishedClause)) # {}
    /\ Cardinality(ValueSet(FinishedResult.variables, PairsBinding(FinishedClause)))
         < Cardinality(ValueSet(FinishedExisting, FinishedClause.subject.value))
             * Cardinality(ValueSet(FinishedExisting, FinishedClause.object.value))

\* C15: an OR node one side of which has no binding at all returns the other
\* side's result as it is, rows and bindings.
C15_OrWithEmptySideReturnsOther ==
    (combined.on /\ combined.operator = "OR") =>
        /\ combined.left.variables = <<>> => acc = combined.right
        /\ (combined.left.variables # <<>> /\ combined.right.variables = <<>>) =>
              acc = combined.left
        /\ ((combined.left.variables = <<>> \/ combined.right.variables = <<>>)
               /\ resp.sent /\ resp.error = NoError) =>
                  /\ resp.variables = acc.variables
                  /\ resp.result = acc.result

\* the left side is empty and the right side has rows
C15_Witness ==
    /\ combined.on /\ combined.operator = "OR" /\ failed = 0
    /\ combined.left.variables = <<>>
    /\ combined.right.variables # <<>> /\ combined.right.result # <<>>
    /\ resp.sent /\ resp.error = NoError

NoDuplicates(seq) == \A i, j \in 1..Len(seq) : seq[i] = seq[j] => i = j

BindingOf(variables, name) == variables[FindIndex(variables, name)]

\* an OR node both sides of which have bindings
OrOfTwo ==
    /\ combined.on /\ combined.operator = "OR"
    /\ combined.left.variables # <<>> /\ combined.right.variables # <<>>

\* C16: in an OR node with bindings on both sides, a variable bound on both
\* sides gets the union of the two value sets, without duplicates, and a
\* variable bound on one side keeps its values; this is what the node
\* returns when no pair binding is among them.
C16_OrUnitesSharedAndKeepsOthers ==
    OrOfTwo =>
        LET l   == combined.left.variables
            r   == combined.right.variables
            out == combined.variables
        IN  /\ ~combined.early
            /\ NamesOf(out) = NamesOf(l) \cup NamesOf(r)
            /\ \A n \in NamesOf(out) :
                  /\ Cardinality({k \in 1..Len(out) : out[k].name = n}) = 1
                  /\ (n \in NamesOf(l) /\ n \in NamesOf(r)) =>
                        /\ ValueSet(out, n) = ValueSet(l, n) \cup ValueSet(r, n)
                        /\ NoDuplicates(BindingOf(out, n).value)
                  /\ (n \in NamesOf(l) /\ n \notin NamesOf(r)) =>
                        BindingOf(out, n).value = BindingOf(l, n).value
                  /\ (n \notin NamesOf(l) /\ n \in NamesOf(r)) =>
                        BindingOf(out, n).value = BindingOf(r, n).value
            /\ PairsOnly(out) = <<>> => acc.variables = out

\* a variable bound on both sides to values the other side lacks, and a
\* request in which a variable is bound on the right side only
C16_Witness ==
    /\ OrOfTwo /\ failed = 0
    /\ \/ \E n \in NamesOf(combined.left.variables) \cap NamesOf(combined.right.variables) :
             /\ ValueSet(combined.left.variables, n)
                   \ ValueSet(combined.right.variables, n) # {}
             /\ ValueSet(combined.right.variables, n)
                   \ ValueSet(combined.left.variables, n) # {}
       \/ \E n \in NamesOf(combined.right.variables) \ NamesOf(combined.left.variables) :
             ValueSet(combined.right.variables, n) # {}

----------------------------------------------------------------------------
(* Properties of the parser and of the lexer.                              *)

\* the tokens of a string up to the end of input or to the first character
\* the lexer rejects
RECURSIVE TokensFrom(_, _)
TokensFrom(str, position) ==
    LET t == GetNextToken(str, position)
    IN  IF ~t.ok \/ t.token.type = "EOF" THEN <<>>
        ELSE <<t.token>> \o TokensFrom(str, t.position)

\* the lexer accepts the whole string
RECURSIVE LexesFrom(_, _)
LexesFrom(str, position) ==
    LET t == GetNextToken(str, position)
    IN  t.ok /\ (t.token.type = "EOF" \/ LexesFrom(str, t.position))

IsOperator(token) == token.type \in {"AND", "OR"}

\* the operators of a token sequence, in the order they are written
WrittenOperators(tokens) ==
    LET ops == SelectSeq(tokens, IsOperator)
    IN  [i \in 1..Len(ops) |-> ops[i].type]

\* the runs of tokens between the operators, in the order they are written
RECURSIVE WrittenClauses(_)
WrittenClauses(tokens) ==
    IF \A i \in 1..Len(tokens) : ~IsOperator(tokens[i]) THEN <<tokens>>
    ELSE LET k == CHOOSE i \in 1..Len(tokens) :
                    IsOperator(tokens[i]) /\ \A j \in 1..(i - 1) : ~IsOperator(tokens[j])
         IN  <<SubSeq(tokens, 1, k - 1)>>
                \o WrittenClauses(SubSeq(tokens, k + 1, Len(tokens)))

OperatorText(operator) == IF operator = "AND" THEN <<"A", "N", "D">> ELSE <<"O", "R">>

\* subject, relation and object of a written clause, as astToString prints them
ClauseText(tokens) ==
    tokens[1].value \o <<" ">> \o tokens[2].value \o <<" ">> \o tokens[3].value

\* the clauses grouped from the left: ((c1 op1 c2) op2 c3) ...
RECURSIVE LeftGrouped(_, _)
LeftGrouped(clauses, ops) ==
    IF ops = <<>> THEN ClauseText(clauses[1])
    ELSE <<"(">> \o LeftGrouped(SubSeq(clauses, 1, Len(clauses) - 1),
                                SubSeq(ops, 1, Len(ops) - 1))
            \o <<" ">> \o OperatorText(ops[Len(ops)]) \o <<" ">>
            \o ClauseText(clauses[Len(clauses)]) \o <<")">>

RECURSIVE RightChildrenSimple(_)
RightChildrenSimple(node) ==
    \/ node.type = "SimpleQuery"
    \/ /\ node.right.type = "SimpleQuery"
       /\ RightChildrenSimple(node.left)

\* the operators of a tree, read from left to right
RECURSIVE OperatorsOf(_)
OperatorsOf(node) ==
    IF node.type = "SimpleQuery" THEN <<>>
    ELSE OperatorsOf(node.left) \o <<node.operator>> \o OperatorsOf(node.right)

\* C17: the tree of a parsed query is a chain leaning to the left: the right
\* child of every CompoundQuery is a SimpleQuery, the operators are those
\* written, in the order written, and AND does not bind tighter than OR, so
\* that a AND b OR c is ((a AND b) OR c) and a OR b AND c is ((a OR b) AND c).
C17_ChainLeansLeft ==
    (parsed.done /\ parsed.ok) =>
        LET tokens == TokensFrom(input, 0)
        IN  /\ RightChildrenSimple(parsed.node)
            /\ OperatorsOf(parsed.node) = WrittenOperators(tokens)
            /\ parsed.ast = LeftGrouped(WrittenClauses(tokens), WrittenOperators(tokens))

\* $x r_i e OR e !r_i $x <5 AND $x r_i e was parsed
C17_Witness ==
    /\ parsed.done /\ parsed.ok
    /\ input = JoinWords(<< VarX, RelI, EntE, WordOr, EntE, NotRelI, VarX, WeightLt5,
                            WordAnd, VarX, RelI, EntE >>)
    /\ parsed.node.type = "CompoundQuery" /\ parsed.node.operator = "AND"
    /\ parsed.node.left.type = "CompoundQuery" /\ parsed.node.left.operator = "OR"
    /\ parsed.ast = <<"(", "(">> \o JoinWords(<< VarX, RelI, EntE >>) \o <<" ", "O", "R", " ">>
                       \o JoinWords(<< EntE, NotRelI, VarX >>) \o <<")", " ", "A", "N", "D", " ">>
                       \o JoinWords(<< VarX, RelI, EntE >>) \o <<")">>

TypesOf(tokens) == [i \in 1..Len(tokens) |-> tokens[i].type]

\* subject, relation, object, then at most one weight, then at most one grep
IsClause(types) ==
    /\ Len(types) >= 3
    /\ types[1] \in {"VARIABLE", "ENTITY"}
    /\ types[2] = "RELATION"
    /\ types[3] \in {"VARIABLE", "ENTITY"}
    /\ SubSeq(types, 4, Len(types))
          \in {<<>>, <<"WEIGHT_PARAM">>, <<"GREP">>, <<"WEIGHT_PARAM", "GREP">>}

\* clauses of that form, with one operator between two of them
WellFormed(tokens) ==
    \A c \in Range(WrittenClauses(tokens)) : IsClause(TypesOf(c))

\* the clauses of a tree, read from left to right
RECURSIVE ClausesOf(_)
ClausesOf(node) ==
    IF node.type = "SimpleQuery" THEN <<node>>
    ELSE ClausesOf(node.left) \o ClausesOf(node.right)

\* the optional token of the given type among those after the object
Optional(tokens, type) ==
    IF \E i \in 4..Len(tokens) : tokens[i].type = type
    THEN tokens[CHOOSE i \in 4..Len(tokens) : tokens[i].type = type]
    ELSE Undefined

\* C18: a query is parsed exactly when each of its clauses is a subject, a
\* relation, an object, then at most one weight parameter, then at most one
\* grep; the clause of the tree carries these tokens, and its negated flag
\* is true exactly when the text of the relation token starts with "!".
C18_ClauseFormAndNegation ==
    parsed.done =>
        LET tokens  == TokensFrom(input, 0)
            written == WrittenClauses(tokens)
        IN  /\ parsed.ok <=> (LexesFrom(input, 0) /\ WellFormed(tokens))
            /\ parsed.ok =>
                  LET clauses == ClausesOf(parsed.node)
                  IN  /\ Len(clauses) = Len(written)
                      /\ \A k \in 1..Len(clauses) :
                            /\ clauses[k].subject = written[k][1]
                            /\ clauses[k].relation = written[k][2]
                            /\ clauses[k].object = written[k][3]
                            /\ clauses[k].weightParam = Optional(written[k], "WEIGHT_PARAM")
                            /\ clauses[k].grep = Optional(written[k], "GREP")
                            /\ clauses[k].negated <=> (clauses[k].relation.value[1] = "!")

\* a parsed query with a negated clause, a clause that is not negated and a
\* clause with both a weight parameter and a grep
C18_Witness ==
    /\ parsed.done /\ parsed.ok
    /\ \E c \in Range(ClausesOf(parsed.node)) : c.negated
    /\ \E c \in Range(ClausesOf(parsed.node)) :
          ~c.negated /\ c.weightParam # Undefined /\ c.grep # Undefined

\* the expression at the start of the query string, as expression() returns it
LeadingExpression == Expression(input, GetNextToken(input, 0))

\* C19: a query is parsed only if the token after the expression is the end
\* of input; with any other token there the request fails with "Unexpected
\* token after parsing expression" and no tree is returned.
C19_NothingAfterExpression ==
    parsed.done =>
        /\ parsed.ok =>
              /\ LeadingExpression.ok
              /\ LeadingExpression.cur.token.type = "EOF"
              /\ LeadingExpression.cur.position = Len(input)
              /\ parsed.node = LeadingExpression.node
        /\ (LeadingExpression.ok /\ LeadingExpression.cur.token.type # "EOF") =>
              /\ ~parsed.ok
              /\ parsed.error = UnexpectedAfterExpression
              /\ "node" \notin DOMAIN parsed /\ "ast" \notin DOMAIN parsed

\* a complete expression of two clauses followed by one more token
C19_Witness ==
    /\ parsed.done /\ ~parsed.ok
    /\ input = JoinWords(<< VarX, RelI, EntE, WordAnd,
                            VarX, RelI, EntE, WeightLt5, WeightLt5 >>)
    /\ LeadingExpression.ok
    /\ LeadingExpression.node.type = "CompoundQuery"
    /\ LeadingExpression.cur.token = CreateToken("WEIGHT_PARAM", WeightLt5, 25)
    /\ parsed.error = UnexpectedAfterExpression

\* the parts of a message that spell the number n, the part at index skip
\* left aside
Spells(message, n, skip) ==
    \E k \in 1..Len(message) :
        /\ k + Len(NumText(n)) - 1 <= Len(message)
        /\ skip \notin k..(k + Len(NumText(n)) - 1)
        /\ SubSeq(message, k, k + Len(NumText(n)) - 1) = NumText(n)

\* C20: when the lexer meets a character that starts no token, the request
\* fails with a message that names the character and its position in the
\* query string.
C20_LexicalErrorNamesCharacterAndPosition ==
    (parsed.done /\ ~parsed.ok /\ parsed.lexical) =>
        /\ parsed.error[2] = input[parsed.position + 1]
        /\ Spells(parsed.error, parsed.position, 2)

\* $x r_i 5 was rejected at the digit, the message naming the digit alone
C20_Witness ==
    /\ parsed.done /\ ~parsed.ok /\ parsed.lexical
    /\ input = JoinWords(<< VarX, RelI, <<"5">> >>)
    /\ parsed.position = 7
    /\ parsed.error = UnexpectedCharacter("5")

\* C21: once getNextToken has returned EOF, every later call returns EOF
\* again, at the same position, and no token of another kind.
C21_EndOfInputIsFinal ==
    \A i, j \in 1..Len(lexer.returned) :
        (i < j /\ lexer.returned[i].type = "EOF") =>
            /\ lexer.returned[j] = lexer.returned[i]
            /\ lexer.returned[j].position = Len(input)
            /\ ~lexer.threw

\* three EOF tokens were returned after the two tokens of $x e
C21_Witness ==
    /\ lexer.on /\ Len(lexer.returned) = 5
    /\ input = JoinWords(<< VarX, EntE >>)
    /\ lexer.returned[2].type = "ENTITY"
    /\ \A i \in 3..5 : lexer.returned[i] = CreateToken("EOF", <<>>, 4)

----------------------------------------------------------------------------
(* Properties of a whole request.                                          *)

\* C22: a fatal error, whether parseQuery threw (lexical or syntax error) or
\* evaluateSimpleQuery met an unknown relation, is answered with that one
\* message, an empty variables list and an empty result; the answer has no
\* ast field and none of the bindings computed before the failure.
C22_FatalErrorAnswerIsBare ==
    /\ (parsed.done /\ ~parsed.ok) => (resp.sent /\ resp.error = parsed.error)
    /\ (resp.sent /\ query # NoQuery /\ idx \in 1..Len(query.clauses)
            /\ UnknownCode(query.clauses[idx]))
         => resp.error = NotRecognized(query.clauses[idx].relation.value)
    /\ (resp.sent /\ resp.error # NoError) =>
            /\ DOMAIN ResponseJson = {"error", "variables", "result", "query"}
            /\ ResponseJson.variables = <<>>
            /\ ResponseJson.result = <<>>

C22_Witness ==
    /\ resp.sent /\ resp.error = NotRecognized(<<"r_no">>)
    /\ Len(query.clauses) = 2 /\ idx = 2
    /\ acc.variables # <<>> /\ acc.result # <<>>
    /\ ResponseJson.variables = <<>>

LionIsaAnimal == JoinWords(<< WordLion, WordIsa, WordAnimal >>)

\* C30: "lion r_isa animal" parses into one clause between two entities; and
\* whenever evaluation reaches a clause with entities on both sides and a
\* known relation, its one step is the throw of "case not implemented": no
\* lookup is issued and the cache is left as it was.
C30_EntityToEntityNotImplemented ==
    [][ /\ (input' = LionIsaAnimal /\ parsed'.done) =>
                /\ parsed'.ok
                /\ ChainFrom(parsed'.node)
                       = Chain(<< ClauseOf(Ent(Lion), Isa, Ent(Animal)) >>, <<>>)
        /\ (pc = "clause" /\ EntityToEntity(CurrentClause) /\ ~UnknownCode(CurrentClause)) =>
                /\ resp'.sent /\ resp'.error = NotImplemented
                /\ pc' = "idle"
                /\ tasks' = tasks /\ \A i \in 1..Len(tasks) : tasks[i].st = "done"
                /\ apiCache' = apiCache ]_vars

C30_Witness ==
    /\ input = LionIsaAnimal /\ parsed.done /\ parsed.ok
    /\ resp.sent /\ resp.error = NotImplemented
    /\ tasks = <<>> /\ apiCache # <<>> /\ runs > 0

\* C23: an answered request whose lookups all succeeded carries the bindings
\* that the query has on the data as it stands, whatever the cache held when
\* the request began (nothing, fresh entries, or some fresh and some
\* expired), whichever requests came before it, and in whatever order its
\* concurrent lookups completed: running the query again gives them again.
C23_RerunGivesSameBindings ==
    (resp.sent /\ resp.error = NoError /\ failed = 0 /\ query # NoQuery) =>
        /\ query = ChainFrom(parsed.node)
        /\ SameBindings([variables |-> resp.variables, result |-> resp.result],
                        SerialEval(world, ChainFrom(parsed.node), Len(query.clauses)))

\* the third request finds the first clause's entry expired and the entries
\* of the second clause's lookups still fresh
C23_Witness ==
    /\ resp.sent /\ resp.error = NoError /\ failed = 0
    /\ runs = 2 /\ now = CACHE_TTL
    /\ Len(query.clauses) = 2
    /\ \E i \in 1..Len(log) : log[i].clause = 1
    /\ \A i \in 1..Len(log) : log[i].clause # 2
    /\ \E i \in 1..Len(resp.variables) : IsPairs(resp.variables[i].name)

----------------------------------------------------------------------------
(* Properties of the lookups of a variable-to-variable clause.             *)

\* the lookups of the clause under evaluation that are in flight
InFlight == SelectSeq(tasks, LAMBDA t : t.clause = idx /\ t.st = "fetching")

\* C24: the per-entity lookups of a variable-to-variable clause, with a
\* variable bound or with none, are all issued before any of them is awaited,
\* the pairs are built only when all of them have completed, and the pairs
\* answered do not depend on the order of completion.
C24_PerEntityLookupsIssuedTogether ==
    /\ (pc = "wait" /\ ClauseMode(CurrentClause, Existing) = "fan") =>
            \A k \in Range(ClauseTargets(CurrentClause, Existing)) :
                \/ \E i \in 1..Len(relMap) : relMap[i].k = k
                \/ \E i \in 1..Len(tasks) : tasks[i].clause = idx /\ tasks[i].k = k
    /\ (scan.on /\ \E i \in 1..Len(InFlight) : InFlight[i].kind = "scanrel") =>
            \A i \in 1..Len(scan.nodes) : Includes(scan.processed, scan.nodes[i].name)
    /\ (scan.on /\ scan.pairs # <<>>) => (scan.i > Len(scan.nodes) /\ AllDone(tasks))
    /\ (resp.sent /\ resp.error = NoError /\ failed = 0
            /\ \E k \in 1..Len(query.clauses) :
                    IsVar(query.clauses[k].subject) /\ IsVar(query.clauses[k].object)) =>
            SameBindings(resp, SerialEval(world, query, Len(query.clauses)))

\* the full scan waits for the lookup of one node while the nodes after it
\* have not been looked up
C24_Witness ==
    /\ scan.on /\ pc = "wait"
    /\ Len(InFlight) = 1 /\ InFlight[1].kind = "scanrel"
    /\ \E i \in 1..Len(scan.nodes) : ~Includes(scan.processed, scan.nodes[i].name)

----------------------------------------------------------------------------
(* Properties of the names read from a response.                           *)

\* the names of the upstream nodes of type 1
LexicalNames == {n.name : n \in {m \in Range(world.nodes) : m.type = 1}}

\* the entity names in a binding's value: the value itself, or the two sides
\* of a pair
NamesIn(value) == {<< value[k] >> : k \in 1..Len(value)}

\* C25: every entity name in a binding, plain or either side of a pair, is
\* the name of a node of type 1.
C25_BindingsHoldLexicalItemsOnly ==
    \A i \in 1..Len(acc.variables) :
        \A j \in 1..Len(acc.variables[i].value) :
            NamesIn(acc.variables[i].value[j]) \subseteq LexicalNames

\* a pair whose right side is the name of a node of another type
C25_Witness ==
    /\ Mane \notin LexicalNames
    /\ \E i \in 1..Len(acc.variables) :
          /\ IsPairs(acc.variables[i].name)
          /\ Includes(acc.variables[i].value, Lion \o Mane)

----------------------------------------------------------------------------
(* Properties of negation on a variable without a binding.                 *)

\* a negated clause word !r_rel $x or $x !r_rel word
NegatedOneVariable(c) == OneVariable(c) /\ c.negated

\* the AND node last combined has clause 1 as its left side, a negated
\* one-variable clause
NegatedOnTheLeft ==
    LastFinished = 2 /\ NegatedOneVariable(query.clauses[1])

\* the AND node last combined has as its right side a negated one-variable
\* clause whose variable the left side did not bind
NegatedOnTheRight ==
    /\ NegatedOneVariable(FinishedClause)
    /\ ~Bound(combined.left.variables, TheVariable(FinishedClause))

\* C26: a negated one-variable clause whose variable has no binding binds it
\* to the empty list, whatever the lookup returned, and an AND node that has
\* this clause as its left or right side returns an empty result.
C26_NegationOfUnboundIsEmpty ==
    /\ (LastFinished >= 1 /\ NegatedOneVariable(FinishedClause)
            /\ ~Bound(FinishedExisting, TheVariable(FinishedClause))) =>
            /\ Bound(FinishedResult.variables, TheVariable(FinishedClause))
            /\ ValueIn(FinishedResult.variables, TheVariable(FinishedClause)) = <<>>
    /\ (combined.on /\ combined.operator = "AND"
            /\ (NegatedOnTheLeft \/ NegatedOnTheRight)) =>
            acc.result = <<>>

\* the right side binds the same variable to a name: the AND node answers
\* one row, the empty string
C26_Witness ==
    /\ combined.on /\ combined.operator = "AND" /\ NegatedOnTheLeft
    /\ failed = 0
    /\ ValueIn(combined.left.variables, <<"$x">>) = <<>>
    /\ ValueIn(combined.right.variables, <<"$x">>) = << Lion >>
    /\ Len(acc.result) = 1 /\ acc.variables = <<>>

----------------------------------------------------------------------------
(* Properties of the pair encoding.                                        *)

UnderscoreFree(name) == Len(name) = 1

CommaFree(value) == Len(value) = 1

\* C27: with underscore-free variable names and comma-free values, the name
\* and the values of a pair binding are read back, by the tuple
\* reconstruction and by the projection, as the two variable names and the
\* tuples they were written from; with an underscore in either variable name
\* the names read back are not the two names written.
C27_PairEncodingRoundTrip ==
    (codec.on /\ codec.stage = "read") =>
        /\ (/\ UnderscoreFree(codec.var1) /\ UnderscoreFree(codec.var2)
            /\ \A i \in 1..Len(codec.tuples) :
                  CommaFree(codec.tuples[i][1]) /\ CommaFree(codec.tuples[i][2])) =>
                /\ << codec.key[1] >> = codec.var1 /\ << codec.key[2] >> = codec.var2
                /\ << codec.projected[1] >> = codec.var1
                /\ << codec.projected[2] >> = codec.var2
                /\ codec.pairs = codec.tuples
                /\ codec.var1Values
                     = Dedup([i \in 1..Len(codec.tuples) |-> codec.tuples[i][1]])
                /\ codec.var2Values
                     = Dedup([i \in 1..Len(codec.tuples) |-> codec.tuples[i][2]])
        /\ (~UnderscoreFree(codec.var1) \/ ~UnderscoreFree(codec.var2)) =>
                /\ << << codec.key[1] >>, << codec.key[2] >> >> # << codec.var1, codec.var2 >>
                /\ << << codec.projected[1] >>, << codec.projected[2] >> >>
                     # << codec.var1, codec.var2 >>

\* $x_$y_pairs with lion,mane and mane,lion read back
C27_Witness ==
    /\ codec.on /\ codec.stage = "read"
    /\ codec.var1 = <<"$x">> /\ codec.var2 = <<"$y">>
    /\ codec.tuples = << << Lion, Mane >>, << Mane, Lion >> >>
    /\ codec.binding.name = <<"$x", "$y", "pairs">>
    /\ codec.pairs = codec.tuples

----------------------------------------------------------------------------
(* Properties of a lookup that throws.                                     *)

\* the call of caller c ends in the catch at this step
Throws(c) ==
    callers[c].st = "fetching" /\ callers'[c].st = "returned" /\ callers'[c].threw

\* a response some upstream dataset gives for the key
FromUpstream(url, result) == \E w \in Worlds : result = Upstream(w, url)

\* C28: a lookup that throws leaves the cache as it was, no entry added and
\* none changed, and returns the empty result; a lookup that finds no entry
\* for its key issues a request; and what the cache holds and serves is
\* always a response of the upstream, never the empty result of a failure.
C28_FailureStoresNothing ==
    /\ [][\A c \in 1..NumCallers :
            Throws(c) => (apiCache' = apiCache /\ callers'[c].ret = EmptyResult)]_vars
    /\ [](\A c \in 1..NumCallers :
            (callers[c].st # "idle" /\ ~callers[c].had) =>
                (callers[c].issued /\ ~callers[c].hit))
    /\ [](\A url \in DOMAIN apiCache : FromUpstream(url, apiCache[url].result))
    /\ [](\A c \in 1..NumCallers :
            (callers[c].st # "idle" /\ callers[c].hit) =>
                FromUpstream(callers[c].url, callers[c].ret))

\* after a lookup of a key threw, with an entry for another key in the
\* cache, the next lookup of the key found no entry and issued a request
C28_Witness ==
    \E c, d \in 1..NumCallers :
        /\ c # d
        /\ callers[c].st = "returned" /\ callers[c].threw /\ ~callers[c].raced
        /\ callers[d].st = "fetching" /\ callers[d].url = callers[c].url
        /\ ~callers[d].raced /\ ~callers[d].had /\ callers[d].issued
        /\ \E url \in DOMAIN apiCache : url # callers[c].url

----------------------------------------------------------------------------
(* Properties of tuple reconstruction without pair bindings.               *)

\* the row Object.values({}).join(",") gives: the empty string
EmptyRow == <<"">>

\* C29: when the combined bindings of a compound node hold no pair binding,
\* tuple reconstruction has an empty chain and emits one tuple without
\* variables, and the node's result is the single row "".
C29_NoPairsGivesOneEmptyRow ==
    (combined.on /\ ~combined.early /\ PairsOnly(combined.variables) = <<>>) =>
        /\ combined.chain = <<>>
        /\ combined.tuples = << <<>> >>
        /\ acc.result = << EmptyRow >>

\* an AND node that binds $x to lion answers the row "" and not lion
C29_Witness ==
    /\ combined.on /\ ~combined.early /\ combined.operator = "AND"
    /\ combined.variables = << [name |-> <<"$x">>, value |-> << Lion >>] >>
    /\ acc.result = << EmptyRow >> /\ acc.variables = combined.variables

====
